---------------------------- MODULE Spec2Model ----------------------------
(***************************************************************************)
(* Model of the cube-to-sphere morph player (jash218/anigifs).             *)
(*                                                                         *)
(* Two implementations of the same transport live in the repository:       *)
(*   "window"   - src/modules/audio.py (and its copy src/modules/ui.py):   *)
(*                MainWindow + MorphOpenGLWidget + EnhancedAudioPlayer,    *)
(*                everything on the Qt event loop;                         *)
(*   "threaded" - src/rotate.py: ProgressWindow on the Qt event loop and   *)
(*                AnimationThread running the render loop and owning the   *)
(*                EnhancedAudioPlayer.                                     *)
(* A behaviour runs one of them (variable impl).  Both keep the transport  *)
(* in fields elapsed, paused, rewind_mode, speed, so the model uses one    *)
(* set of variables for them.                                              *)
(*                                                                         *)
(* Time.  The code counts seconds in floats: a forward tick adds           *)
(* 0.016*speed, a rewind tick subtracts 0.016*2.0, the slider seeks to     *)
(* value/100*duration.  The model measures time exactly, in units of       *)
(* 0.016/SliderMax seconds, so that all three are integers:                *)
(*   forward tick = TickStep*speed, rewind tick = TickStep*RewindFactor,   *)
(*   duration = DurationSteps*TickStep, slider value v = v*DurationSteps.  *)
(* The code's 100 slider positions and 1875 tick steps per run are bounded *)
(* by SliderMax and DurationSteps.                                         *)
(***************************************************************************)
EXTENDS Integers, Sequences, FiniteSets, TLC

\* ------------------------------------------------------------------ bounds
SliderMax == 1          \* slider positions 0..SliderMax (code: 0..100)
DurationSteps == 3      \* forward 1x ticks in one run (code: 30.0/0.016)
ShortTrack == 2         \* length of an audio track shorter than the run
MaxStreamTime == 1      \* a nonzero device stream time added by pause()

\* ------------------------------------------------------- program constants
RewindFactor == 2       \* elapsed -= 0.016 * 2.0
FastSpeed == 2          \* speed 2.0 of the speed toggle
NormalSpeed == 1        \* speed 1.0

TickStep == SliderMax                    \* 0.016 s
duration == DurationSteps * TickStep     \* 30.0 s
LongTrack == duration + TickStep         \* a track longer than the run
TrackLens == {ShortTrack, LongTrack}
None == -1                               \* Python's None (positions are >= 0)
SliderValues == 0 .. SliderMax
\* arguments of a programmatic set_position: below 0, inside, above duration
SeekInputs == {-5, 0, 1, duration, duration + 100}
StreamTimes == {0, MaxStreamTime}

Min(a, b) == IF a < b THEN a ELSE b
Max(a, b) == IF a > b THEN a ELSE b

VARIABLES
    impl,                  \* "window" | "threaded"
    \* transport: MorphOpenGLWidget (window) / ProgressWindow (threaded)
    elapsed, paused, rewind_mode, speed,
    \* progress slider and button texts
    slider_value, slider_being_dragged,
    play_pause_btn, rewind_btn, speed_btn, audio_btn,
    \* EnhancedAudioPlayer (record, see AudioInit)
    audio,
    \* AnimationThread: position in run() and its copies of the signals
    th_pc, th_paused, th_rewind_mode, th_speed, audio_file,
    \* history: the last handler that ran and the transport it started from
    op, pre,
    \* history: elapsed was explicitly set and audio has not been started
    \* since; the last handler made the first audio start after such a set
    pending_set, start_after_set,
    \* history: the argument of the programmatic set_position just made
    \* (else None); the transport state in which the first of two
    \* toggle_rewind calls in a row was made (else "none")
    seek_arg, rewind_twice_from,
    \* history (threaded): a slider release during forward playback with
    \* audio playing has not been followed by an audio restart; a render
    \* loop iteration has run to its end in that condition
    release_unsynced, stale_iteration,
    \* AnimationThread: the slot handle_progress_signals, running in the GUI
    \* thread, is between its assignments: <<>> when it is not, else
    \* <<the rewind_mode it has still to assign, the paused it overwrote>>
    th_pending,
    \* closeEvent has run
    closed,
    \* history: what the ticks have seen of the transport inputs: "changed"
    \* (an input changed since the last tick), "synced" (a tick has run
    \* since the last change), "quiet" / "noisy" (the last tick ran with
    \* nothing changed since the tick before, and issued no / an audio
    \* command)
    iter_hist,
    \* history: the player before the last call of one of its methods
    pre_audio,
    \* the geometry builder and the morph of a frame (record, see GeomInit)
    geom,
    \* RotationController (record, see ControllerInit) and a SmoothValue on
    \* its own (record, see SmoothInit)
    controller, smooth

transportVars == <<elapsed, paused, rewind_mode, speed>>
uiVars == <<slider_value, slider_being_dragged, play_pause_btn, rewind_btn,
            speed_btn, audio_btn>>
threadVars == <<th_pc, th_paused, th_rewind_mode, th_speed, audio_file,
                th_pending>>
histVars == <<op, pre, pending_set, start_after_set, seek_arg,
              rewind_twice_from, release_unsynced, stale_iteration,
              iter_hist, pre_audio>>
\* the parts of the program that share no field with the transport or the
\* player
partVars == <<geom, controller, smooth>>
vars == <<impl, transportVars, uiVars, audio, threadVars, closed, histVars,
          partVars>>

\* ------------------------------------------------------ transport states
Paused == paused /\ ~rewind_mode
PlayingForward == ~paused /\ ~rewind_mode
Rewinding == ~paused /\ rewind_mode

Transport == [elapsed |-> elapsed, paused |-> paused,
              rewind_mode |-> rewind_mode, speed |-> speed]
PrePaused == pre.paused /\ ~pre.rewind_mode
PrePlayingForward == ~pre.paused /\ ~pre.rewind_mode
PreRewinding == ~pre.paused /\ pre.rewind_mode
PreState == IF pre.rewind_mode /\ ~pre.paused THEN "Rewinding"
            ELSE IF pre.rewind_mode THEN "RewindingPaused"
            ELSE IF pre.paused THEN "Paused" ELSE "PlayingForward"

\* history common to every handler: its name, the transport it started
\* from, the argument when it is a programmatic seek
Step(name, arg) ==
    /\ op' = name
    /\ pre' = Transport
    /\ seek_arg' = arg
    /\ rewind_twice_from' = IF name = "toggle_rewind" /\ op = "toggle_rewind"
                            THEN PreState ELSE "none"
    /\ UNCHANGED <<pre_audio, partVars>>


\* ------------------------------------------------------------------------
\* EnhancedAudioPlayer of src/modules/audio.py.  The player is a record:
\*   audio_data        length of the loaded track (None when nothing loaded)
\*   playing, paused, current_position, speed, is_rewinding   the fields
\*   sounding          the sounddevice stream is active (sd.play / sd.stop)
\*   started           offset of the last sd.play of the running handler
\*   play_arg          offset of the last play() of the running handler
\* sounding, started and play_arg record the calls made; the code does not
\* read them.
AudioInit == [audio_data |-> None, playing |-> FALSE, paused |-> FALSE,
              current_position |-> 0, speed |-> NormalSpeed,
              is_rewinding |-> FALSE, sounding |-> FALSE,
              started |-> None, play_arg |-> None]

\* a handler starts with no play made
Fresh(a) == [a EXCEPT !.started = None, !.play_arg = None]

\* load_file(path): result is the decoded length, or None when librosa raises
Player_load_file(a, result) ==
    IF result # None THEN [a EXCEPT !.audio_data = result]
    ELSE a

\* start_sample < len(audio_data)  <=>  current_position < track length
Player_play(a, from_pos) ==
    IF a.audio_data = None THEN a
    ELSE LET a1 == IF from_pos # None
                   THEN [a EXCEPT !.current_position = from_pos] ELSE a
             a2 == [a1 EXCEPT !.sounding = FALSE,
                              !.play_arg = a1.current_position]
         IN IF a2.current_position < a2.audio_data
            THEN [a2 EXCEPT !.sounding = TRUE,
                            !.started = a2.current_position,
                            !.playing = TRUE, !.paused = FALSE]
            ELSE a2

\* d: stream.time / speed as the device reports it (0 when the stream is
\* unavailable and the except branch is taken)
Player_pause(a, d) ==
    IF a.playing /\ ~a.paused
    THEN [a EXCEPT !.current_position = @ + d, !.sounding = FALSE,
                   !.paused = TRUE]
    ELSE a

Player_resume(a) ==
    IF a.paused THEN Player_play(a, a.current_position) ELSE a

\* variant of set_position: a playing track is restarted before the new
\* position is stored
Player_set_position_restart_first(a, position_seconds) ==
    IF a.audio_data # None
    THEN LET a1 == IF a.playing /\ ~a.paused THEN Player_play(a, None)
                   ELSE a
         IN [a1 EXCEPT !.current_position =
                Max(0, Min(position_seconds, a.audio_data))]
    ELSE a

Player_set_position(a, position_seconds) ==
    IF a.audio_data # None
    THEN LET a1 == [a EXCEPT !.current_position =
                        Max(0, Min(position_seconds, a.audio_data))]
         IN IF a1.playing /\ ~a1.paused
            THEN Player_play(a1, a1.current_position) ELSE a1
    ELSE a

Player_set_speed(a, s) ==
    LET a1 == [a EXCEPT !.speed = s] IN
    IF a1.playing /\ ~a1.paused
    THEN Player_play(a1, a1.current_position) ELSE a1

Player_start_rewind(a) ==
    [a EXCEPT !.is_rewinding = TRUE, !.sounding = FALSE, !.playing = FALSE]

Player_stop_rewind(a) ==
    [a EXCEPT !.is_rewinding = FALSE]

\* variant of cleanup: the paused flag is not reset
Player_cleanup_keep_paused(a) ==
    [a EXCEPT !.sounding = FALSE, !.playing = FALSE, !.is_rewinding = FALSE]

Player_cleanup(a) ==
    [a EXCEPT !.sounding = FALSE, !.playing = FALSE, !.paused = FALSE,
              !.is_rewinding = FALSE]

\* ------------------------------------------------------------------------
\* MorphOpenGLWidget of src/modules/audio.py: the transport.  The methods
\* are functions of the transport record t.

\* variant of update_animation: the rewind step follows the speed
Widget_update_animation_rewind_speed(t) ==
    IF ~t.paused
    THEN IF t.rewind_mode
         THEN LET e == t.elapsed - TickStep * t.speed IN
              IF e < 0
              THEN [elapsed |-> 0, paused |-> TRUE, rewind_mode |-> FALSE,
                    speed |-> t.speed, ended |-> TRUE]
              ELSE [elapsed |-> e, paused |-> t.paused,
                    rewind_mode |-> t.rewind_mode, speed |-> t.speed,
                    ended |-> FALSE]
         ELSE LET e == t.elapsed + TickStep * t.speed IN
              IF e > duration
              THEN [elapsed |-> duration, paused |-> TRUE,
                    rewind_mode |-> t.rewind_mode, speed |-> t.speed,
                    ended |-> TRUE]
              ELSE [elapsed |-> e, paused |-> t.paused,
                    rewind_mode |-> t.rewind_mode, speed |-> t.speed,
                    ended |-> FALSE]
    ELSE [elapsed |-> t.elapsed, paused |-> t.paused,
          rewind_mode |-> t.rewind_mode, speed |-> t.speed, ended |-> FALSE]

\* variant of update_animation: the forward end clamps without pausing
Widget_update_animation_no_pause(t) ==
    IF ~t.paused
    THEN IF t.rewind_mode
         THEN LET e == t.elapsed - TickStep * RewindFactor IN
              IF e < 0
              THEN [elapsed |-> 0, paused |-> TRUE, rewind_mode |-> FALSE,
                    speed |-> t.speed, ended |-> TRUE]
              ELSE [elapsed |-> e, paused |-> t.paused,
                    rewind_mode |-> t.rewind_mode, speed |-> t.speed,
                    ended |-> FALSE]
         ELSE LET e == t.elapsed + TickStep * t.speed IN
              [elapsed |-> IF e > duration THEN duration ELSE e,
               paused |-> t.paused, rewind_mode |-> t.rewind_mode,
               speed |-> t.speed, ended |-> FALSE]
    ELSE [elapsed |-> t.elapsed, paused |-> t.paused,
          rewind_mode |-> t.rewind_mode, speed |-> t.speed, ended |-> FALSE]

\* update_animation, lines 529-545.  ended: update_player_controls is called
Widget_update_animation(t) ==
    IF ~t.paused
    THEN IF t.rewind_mode
         THEN LET e == t.elapsed - TickStep * RewindFactor IN
              IF e < 0
              THEN [elapsed |-> 0, paused |-> TRUE, rewind_mode |-> FALSE,
                    speed |-> t.speed, ended |-> TRUE]
              ELSE [elapsed |-> e, paused |-> t.paused,
                    rewind_mode |-> t.rewind_mode, speed |-> t.speed,
                    ended |-> FALSE]
         ELSE LET e == t.elapsed + TickStep * t.speed IN
              IF e > duration
              THEN [elapsed |-> duration, paused |-> TRUE,
                    rewind_mode |-> t.rewind_mode, speed |-> t.speed,
                    ended |-> TRUE]
              ELSE [elapsed |-> e, paused |-> t.paused,
                    rewind_mode |-> t.rewind_mode, speed |-> t.speed,
                    ended |-> FALSE]
    ELSE [elapsed |-> t.elapsed, paused |-> t.paused,
          rewind_mode |-> t.rewind_mode, speed |-> t.speed, ended |-> FALSE]

\* variants of set_position: no clamp at all; no clamp at 0
Widget_set_position_unclamped(t, position_seconds) ==
    [t EXCEPT !.elapsed = position_seconds]

Widget_set_position_upper_only(t, position_seconds) ==
    [t EXCEPT !.elapsed = Min(position_seconds, duration)]

Widget_set_position(t, position_seconds) ==
    [t EXCEPT !.elapsed = Max(0, Min(position_seconds, duration))]

\* variants of toggle_play_pause: rewind_mode is not cleared; a rewind is
\* cancelled into forward playback
Widget_toggle_play_pause_keep_rewind(t) ==
    [t EXCEPT !.paused = ~t.paused]

Widget_toggle_play_pause_resume(t) ==
    [t EXCEPT !.rewind_mode = FALSE,
              !.paused = IF t.rewind_mode THEN FALSE ELSE ~t.paused]

Widget_toggle_play_pause(t) ==
    [t EXCEPT !.rewind_mode = FALSE, !.paused = ~t.paused]

\* variant of toggle_rewind: starting a rewind does not unpause
Widget_toggle_rewind_no_unpause(t) ==
    IF t.rewind_mode
    THEN [t EXCEPT !.rewind_mode = FALSE, !.paused = TRUE]
    ELSE [t EXCEPT !.rewind_mode = TRUE]

Widget_toggle_rewind(t) ==
    IF t.rewind_mode
    THEN [t EXCEPT !.rewind_mode = FALSE, !.paused = TRUE]
    ELSE [t EXCEPT !.rewind_mode = TRUE, !.paused = FALSE]

\* slider value -> seconds: (value / 100.0) * duration
SliderPosition(value) == value * DurationSteps

\* seconds -> slider value: int((elapsed / duration) * 100)
SliderPercent(e) == (e * SliderMax) \div duration

\* MainWindow.update_player_controls: <<play_pause_btn, rewind_btn>>
MainWindow_update_player_controls(t) ==
    << IF t.paused /\ ~t.rewind_mode THEN "Play" ELSE "Pause",
       IF t.rewind_mode THEN "Stop" ELSE "Rewind" >>

\* ------------------------------------------------------------------------
\* history variables, updated by every handler.  explicit: the handler set
\* elapsed explicitly (seek, rewind completing at 0); a2: the player after
\* the handler.
\* an audio command was issued between player a (fresh) and player a2
Commanded(a, a2) == a2.play_arg # None \/ Fresh(a2) # a

\* iter_hist after a tick
IterNext(commanded) ==
    IF iter_hist = "changed" THEN "synced"
    ELSE IF commanded THEN "noisy" ELSE "quiet"

Hist(name, a2, explicit) ==
    /\ Step(name, None)
    /\ pending_set' = IF a2.started # None THEN FALSE
                      ELSE (pending_set \/ explicit)
    /\ start_after_set' = (a2.started # None /\ (pending_set \/ explicit))
    /\ iter_hist' = IF name = "update_animation"
                    THEN IterNext(Commanded(Fresh(audio), a2))
                    ELSE IF name = "update_ui" THEN iter_hist ELSE "changed"

SetTransport(t) ==
    /\ elapsed' = t.elapsed
    /\ paused' = t.paused
    /\ rewind_mode' = t.rewind_mode
    /\ speed' = t.speed

\* ------------------------------------------------------------------------
\* The window implementation: handlers of MainWindow / MorphOpenGLWidget

\* animation_timer: MorphOpenGLWidget.update_animation.  Lines 518-527 step
\* the rotation controller, which shares no field with the transport.
MainWindow_update_animation ==
    /\ impl = "window"
    /\ LET t == Widget_update_animation(Transport)
           b == MainWindow_update_player_controls(t)
       IN /\ SetTransport(t)
          /\ play_pause_btn' = IF t.ended THEN b[1] ELSE play_pause_btn
          /\ rewind_btn' = IF t.ended THEN b[2] ELSE rewind_btn
          /\ audio' = Fresh(audio)
          /\ Hist("update_animation", Fresh(audio),
                  t.ended /\ Transport.rewind_mode)
    /\ UNCHANGED <<impl, closed, slider_value, slider_being_dragged, speed_btn,
                   audio_btn, threadVars, release_unsynced, stale_iteration>>

\* ui_timer: MainWindow.update_ui
MainWindow_update_ui ==
    /\ impl = "window"
    /\ slider_value' = IF slider_being_dragged THEN slider_value
                       ELSE SliderPercent(elapsed)
    /\ audio' = Fresh(audio)
    /\ Hist("update_ui", Fresh(audio), FALSE)
    /\ UNCHANGED <<impl, closed, transportVars, slider_being_dragged, play_pause_btn,
                   rewind_btn, speed_btn, audio_btn, threadVars,
                   release_unsynced, stale_iteration>>

MainWindow_slider_pressed ==
    /\ impl = "window"
    /\ ~slider_being_dragged
    /\ slider_being_dragged' = TRUE
    /\ audio' = Fresh(audio)
    /\ Hist("slider_pressed", Fresh(audio), FALSE)
    /\ UNCHANGED <<impl, closed, transportVars, slider_value, play_pause_btn,
                   rewind_btn, speed_btn, audio_btn, threadVars,
                   release_unsynced, stale_iteration>>

\* the user moves the handle: valueChanged(value) -> slider_changed(value)
MainWindow_slider_changed ==
    /\ impl = "window"
    /\ slider_being_dragged
    /\ \E value \in SliderValues \ {slider_value} :
          /\ slider_value' = value
          /\ elapsed' = SliderPosition(value)
    /\ audio' = Fresh(audio)
    /\ Hist("slider_changed", Fresh(audio), FALSE)
    /\ UNCHANGED <<impl, closed, paused, rewind_mode, speed, slider_being_dragged,
                   play_pause_btn, rewind_btn, speed_btn, audio_btn,
                   threadVars, release_unsynced, stale_iteration>>

MainWindow_slider_released ==
    /\ impl = "window"
    /\ slider_being_dragged
    /\ slider_being_dragged' = FALSE
    /\ LET position_seconds == SliderPosition(slider_value)
           a2 == Player_set_position(Fresh(audio), position_seconds)
       IN /\ SetTransport(Widget_set_position(Transport, position_seconds))
          /\ audio' = a2
          /\ Hist("slider_released", a2, TRUE)
    /\ UNCHANGED <<impl, closed, slider_value, play_pause_btn, rewind_btn, speed_btn,
                   audio_btn, threadVars, release_unsynced, stale_iteration>>

MainWindow_toggle_play_pause ==
    /\ impl = "window"
    /\ LET t == Widget_toggle_play_pause(Transport) IN
       IF t.paused
       THEN /\ SetTransport(t)
            /\ play_pause_btn' = "Play"
            /\ UNCHANGED rewind_btn
            /\ \E d \in StreamTimes :
                  LET a2 == IF audio.playing
                            THEN Player_pause(Fresh(audio), d)
                            ELSE Fresh(audio)
                  IN audio' = a2 /\ Hist("toggle_play_pause", a2, FALSE)
       ELSE /\ SetTransport([t EXCEPT !.rewind_mode = FALSE])
            /\ play_pause_btn' = "Pause"
            /\ rewind_btn' = "Rewind"
            /\ LET a1 == Player_set_position(Fresh(audio), t.elapsed)
                   a2 == IF a1.paused THEN Player_resume(a1)
                         ELSE Player_play(a1, None)
               IN audio' = a2 /\ Hist("toggle_play_pause", a2, FALSE)
    /\ UNCHANGED <<impl, closed, slider_value, slider_being_dragged, speed_btn,
                   audio_btn, threadVars, release_unsynced, stale_iteration>>

MainWindow_toggle_rewind ==
    /\ impl = "window"
    /\ LET t == Widget_toggle_rewind(Transport) IN
       IF t.rewind_mode
       THEN /\ SetTransport(t)
            /\ rewind_btn' = "Stop"
            /\ play_pause_btn' = "Play"
            /\ \E d \in StreamTimes :
                  LET a2 == Player_pause(Fresh(audio), d)
                  IN audio' = a2 /\ Hist("toggle_rewind", a2, FALSE)
       ELSE /\ SetTransport([t EXCEPT !.paused = TRUE])
            /\ rewind_btn' = "Rewind"
            /\ play_pause_btn' = "Play"
            /\ audio' = Fresh(audio)
            /\ Hist("toggle_rewind", Fresh(audio), FALSE)
    /\ UNCHANGED <<impl, closed, slider_value, slider_being_dragged, speed_btn,
                   audio_btn, threadVars, release_unsynced, stale_iteration>>

MainWindow_toggle_speed ==
    /\ impl = "window"
    /\ LET s == IF speed = NormalSpeed THEN FastSpeed ELSE NormalSpeed
           a2 == Player_set_speed(Fresh(audio), s)
       IN /\ speed' = s
          /\ speed_btn' = IF speed = NormalSpeed THEN "2x" ELSE "1x"
          /\ audio' = a2
          /\ Hist("toggle_speed", a2, FALSE)
    /\ UNCHANGED <<impl, closed, elapsed, paused, rewind_mode, slider_value,
                   slider_being_dragged, play_pause_btn, rewind_btn,
                   audio_btn, threadVars, release_unsynced, stale_iteration>>

\* the file dialog returned a name; result: decoded length or None (failure)
MainWindow_load_audio_file ==
    /\ impl = "window"
    /\ \E result \in TrackLens \cup {None} :
          LET a1 == Player_load_file(Player_cleanup(Fresh(audio)), result)
              a2 == IF result # None /\ ~paused
                    THEN Player_play(a1, elapsed) ELSE a1
          IN /\ audio' = a2
             /\ audio_btn' = IF result # None THEN "Audio" ELSE "NoAudio"
             /\ Hist("load_audio_file", a2, FALSE)
    /\ UNCHANGED <<impl, closed, transportVars, slider_value, slider_being_dragged,
                   play_pause_btn, rewind_btn, speed_btn, threadVars,
                   release_unsynced, stale_iteration>>

\* a programmatic call of MorphOpenGLWidget.set_position(p)
Widget_set_position_call ==
    /\ impl = "window"
    /\ \E p \in SeekInputs :
          /\ SetTransport(Widget_set_position(Transport, p))
          /\ Step("set_position", p)
    /\ audio' = Fresh(audio)
    /\ pending_set' = TRUE
    /\ start_after_set' = FALSE
    /\ iter_hist' = "changed"
    /\ UNCHANGED <<impl, closed, uiVars, threadVars, release_unsynced,
                   stale_iteration>>

WindowNext ==
    \/ MainWindow_update_animation
    \/ MainWindow_update_ui
    \/ MainWindow_slider_pressed
    \/ MainWindow_slider_changed
    \/ MainWindow_slider_released
    \/ MainWindow_toggle_play_pause
    \/ MainWindow_toggle_rewind
    \/ MainWindow_toggle_speed
    \/ MainWindow_load_audio_file


\* ------------------------------------------------------------------------
\* EnhancedAudioPlayer of src/rotate.py (the methods the render loop calls).
\* load_file has no try/except; play has no length check: it sets playing
\* whatever the offset, and the device sounds only when samples remain.
RotatePlayer_load_file(a, result) ==
    [a EXCEPT !.audio_data = result]

RotatePlayer_play(a, from_pos) ==
    IF a.audio_data = None THEN a
    ELSE LET a1 == IF from_pos # None
                   THEN [a EXCEPT !.current_position = from_pos] ELSE a
         IN [a1 EXCEPT !.sounding = (a1.current_position < a1.audio_data),
                       !.started = a1.current_position,
                       !.play_arg = a1.current_position,
                       !.playing = TRUE, !.paused = FALSE]

RotatePlayer_pause(a, d) ==
    IF a.playing /\ ~a.paused
    THEN [a EXCEPT !.current_position = @ + d, !.sounding = FALSE,
                   !.paused = TRUE]
    ELSE a

RotatePlayer_set_speed(a, s) ==
    LET a1 == [a EXCEPT !.speed = s] IN
    IF a1.playing /\ ~a1.paused
    THEN RotatePlayer_play(a1, a1.current_position) ELSE a1

RotatePlayer_start_rewind(a) ==
    [a EXCEPT !.is_rewinding = TRUE]

RotatePlayer_stop_rewind(a) ==
    [a EXCEPT !.is_rewinding = FALSE]

RotatePlayer_resume(a) ==
    IF a.paused THEN RotatePlayer_play(a, a.current_position) ELSE a

\* len(self.audio_data) raises TypeError when no track is loaded, before
\* anything is assigned
RotatePlayer_set_position(a, position_seconds) ==
    IF a.audio_data = None THEN a
    ELSE LET a1 == [a EXCEPT !.current_position =
                        Max(0, Min(position_seconds, a.audio_data))]
         IN IF a1.playing /\ ~a1.paused
            THEN RotatePlayer_play(a1, a1.current_position) ELSE a1

RotatePlayer_cleanup(a) ==
    [a EXCEPT !.sounding = FALSE, !.playing = FALSE, !.paused = FALSE,
              !.is_rewinding = FALSE]

\* ------------------------------------------------------------------------
\* AnimationThread.handle_progress_signals: th is the thread's copy
\* [paused, rewind_mode, speed], signal_dict a function on the keys sent
AnimationThread_handle_progress_signals(th, signal_dict) ==
    [paused |-> IF "paused" \in DOMAIN signal_dict
                THEN signal_dict["paused"] ELSE th.paused,
     rewind_mode |-> IF "rewind_mode" \in DOMAIN signal_dict
                     THEN signal_dict["rewind_mode"] ELSE th.rewind_mode,
     speed |-> IF "speed" \in DOMAIN signal_dict
               THEN signal_dict["speed"] ELSE th.speed]

ThreadCopy == [paused |-> th_paused, rewind_mode |-> th_rewind_mode,
               speed |-> th_speed]

\* the signal is connected once run() has executed line 781
Connected == th_pc \in {"connected", "loop"}

\* the slot assigns self.paused (line 925) and then self.rewind_mode (line
\* 928); the render loop runs in the other thread and can run between the
\* two assignments
Split(signal_dict) ==
    "paused" \in DOMAIN signal_dict /\ "rewind_mode" \in DOMAIN signal_dict

\* animation_signal.emit(signal_dict): a direct call of the connected slot
\* in the GUI thread (the AnimationThread object lives in the GUI thread).
\* A signal with both paused and rewind_mode is applied up to line 925
\* here and finished by AnimationThread_handle_progress_signals_rest.
Emit(signal_dict) ==
    LET first == IF Split(signal_dict)
                 THEN [k \in DOMAIN signal_dict \ {"rewind_mode"} |->
                          signal_dict[k]]
                 ELSE signal_dict
        th == IF Connected
              THEN AnimationThread_handle_progress_signals(ThreadCopy, first)
              ELSE ThreadCopy
    IN /\ th_paused' = th.paused
       /\ th_rewind_mode' = th.rewind_mode
       /\ th_speed' = th.speed
       /\ th_pending' = IF Connected /\ Split(signal_dict)
                        THEN <<signal_dict["rewind_mode"], th_paused>>
                        ELSE <<>>
       /\ UNCHANGED <<th_pc, audio_file>>

\* the GUI thread of rotate.py dispatches an event: the process runs and
\* the thread is not inside the slot
GuiThread == impl = "threaded" /\ ~closed /\ th_pending = <<>>

\* the thread of AnimationThread.run takes a step: the process runs
RenderThread == impl = "threaded" /\ ~closed

\* history of the threaded implementation; a handler of the window leaves
\* the player alone
WindowHist(name, released) ==
    /\ Step(name, None)
    /\ release_unsynced' = (release_unsynced \/ released)
    /\ iter_hist' = IF name = "slider_released" \/ ThreadCopy' # ThreadCopy
                    THEN "changed" ELSE iter_hist
    /\ UNCHANGED <<pending_set, start_after_set, stale_iteration, audio>>

\* ------------------------------------------------------------------------
\* ProgressWindow of src/rotate.py

\* update_ui, lines 316-345: the tick.  ended: the branch that pauses and
\* emits the signal was taken
ProgressWindow_tick(t) ==
    IF ~t.paused
    THEN IF t.rewind_mode
         THEN LET e == t.elapsed - TickStep * RewindFactor IN
              IF e < 0
              THEN [elapsed |-> 0, paused |-> TRUE, rewind_mode |-> FALSE,
                    speed |-> t.speed, ended |-> TRUE]
              ELSE [elapsed |-> e, paused |-> t.paused,
                    rewind_mode |-> t.rewind_mode, speed |-> t.speed,
                    ended |-> FALSE]
         ELSE LET e == t.elapsed + TickStep * t.speed IN
              IF e > duration
              THEN [elapsed |-> duration, paused |-> TRUE,
                    rewind_mode |-> t.rewind_mode, speed |-> t.speed,
                    ended |-> TRUE]
              ELSE [elapsed |-> e, paused |-> t.paused,
                    rewind_mode |-> t.rewind_mode, speed |-> t.speed,
                    ended |-> FALSE]
    ELSE [elapsed |-> t.elapsed, paused |-> t.paused,
          rewind_mode |-> t.rewind_mode, speed |-> t.speed, ended |-> FALSE]

\* update_ui, lines 313-358: the tick and the slider refresh
ProgressWindow_update_ui ==
    /\ GuiThread
    /\ LET t == ProgressWindow_tick(Transport) IN
       /\ SetTransport(t)
       /\ play_pause_btn' = IF t.ended THEN "Play" ELSE play_pause_btn
       /\ rewind_btn' = IF t.ended /\ rewind_mode THEN "Rewind"
                        ELSE rewind_btn
       /\ slider_value' = IF slider_being_dragged THEN slider_value
                          ELSE SliderPercent(t.elapsed)
       /\ IF t.ended /\ rewind_mode
          THEN Emit([rewind_mode |-> FALSE, paused |-> TRUE,
                     position |-> t.elapsed])
          ELSE IF t.ended
               THEN Emit([paused |-> TRUE, position |-> t.elapsed])
               ELSE UNCHANGED threadVars
    /\ WindowHist("update_ui", FALSE)
    /\ UNCHANGED <<impl, closed, slider_being_dragged, speed_btn, audio_btn>>

ProgressWindow_slider_pressed ==
    /\ GuiThread
    /\ ~slider_being_dragged
    /\ slider_being_dragged' = TRUE
    /\ UNCHANGED <<impl, closed, transportVars, slider_value, play_pause_btn,
                   rewind_btn, speed_btn, audio_btn, threadVars>>
    /\ WindowHist("slider_pressed", FALSE)

ProgressWindow_slider_changed ==
    /\ GuiThread
    /\ slider_being_dragged
    /\ \E value \in SliderValues \ {slider_value} :
          /\ slider_value' = value
          /\ elapsed' = SliderPosition(value)
    /\ UNCHANGED <<impl, closed, paused, rewind_mode, speed,
                   slider_being_dragged, play_pause_btn, rewind_btn,
                   speed_btn, audio_btn, threadVars>>
    /\ WindowHist("slider_changed", FALSE)

ProgressWindow_slider_released ==
    /\ GuiThread
    /\ slider_being_dragged
    /\ slider_being_dragged' = FALSE
    /\ elapsed' = SliderPosition(slider_value)
    /\ Emit([position |-> SliderPosition(slider_value)])
    /\ WindowHist("slider_released",
                  PlayingForward /\ th_pc = "loop" /\ ~th_paused
                  /\ ~th_rewind_mode /\ audio.playing /\ ~audio.paused)
    /\ UNCHANGED <<impl, closed, paused, rewind_mode, speed, slider_value,
                   play_pause_btn, rewind_btn, speed_btn, audio_btn>>

ProgressWindow_toggle_play_pause ==
    /\ GuiThread
    /\ rewind_mode' = FALSE
    /\ rewind_btn' = "Rewind"
    /\ paused' = ~paused
    /\ play_pause_btn' = IF ~paused THEN "Play" ELSE "Pause"
    /\ Emit([paused |-> ~paused, rewind_mode |-> FALSE,
             position |-> elapsed])
    /\ WindowHist("toggle_play_pause", FALSE)
    /\ UNCHANGED <<impl, closed, elapsed, speed, slider_value, slider_being_dragged,
                   speed_btn, audio_btn>>

ProgressWindow_toggle_rewind ==
    /\ GuiThread
    /\ IF rewind_mode
       THEN /\ rewind_mode' = FALSE
            /\ paused' = TRUE
            /\ rewind_btn' = "Rewind"
            /\ play_pause_btn' = "Play"
       ELSE /\ rewind_mode' = TRUE
            /\ paused' = FALSE
            /\ rewind_btn' = "Stop"
            /\ play_pause_btn' = "Play"
    /\ Emit([rewind_mode |-> ~rewind_mode, paused |-> rewind_mode,
             position |-> elapsed])
    /\ WindowHist("toggle_rewind", FALSE)
    /\ UNCHANGED <<impl, closed, elapsed, speed, slider_value, slider_being_dragged,
                   speed_btn, audio_btn>>

ProgressWindow_toggle_speed ==
    /\ GuiThread
    /\ speed' = IF speed = NormalSpeed THEN FastSpeed ELSE NormalSpeed
    /\ speed_btn' = IF speed = NormalSpeed THEN "2x" ELSE "1x"
    /\ Emit([speed |-> IF speed = NormalSpeed THEN FastSpeed
                       ELSE NormalSpeed])
    /\ WindowHist("toggle_speed", FALSE)
    /\ UNCHANGED <<impl, closed, elapsed, paused, rewind_mode, slider_value,
                   slider_being_dragged, play_pause_btn, rewind_btn,
                   audio_btn>>

\* handle_progress_signals, lines 927-928: the GUI thread finishes the slot
AnimationThread_handle_progress_signals_rest ==
    /\ impl = "threaded" /\ ~closed
    /\ th_pending # <<>>
    /\ LET th == AnimationThread_handle_progress_signals(ThreadCopy,
                     [rewind_mode |-> th_pending[1]])
       IN /\ th_paused' = th.paused
          /\ th_rewind_mode' = th.rewind_mode
          /\ th_speed' = th.speed
    /\ th_pending' = <<>>
    /\ UNCHANGED <<impl, closed, transportVars, uiVars, th_pc, audio_file>>
    /\ op' = "handle_progress_signals"
    /\ UNCHANGED <<pre, seek_arg, rewind_twice_from, pre_audio, pending_set,
                   start_after_set, release_unsynced, stale_iteration, audio,
                   partVars>>
    /\ iter_hist' = IF ThreadCopy' # ThreadCopy THEN "changed" ELSE iter_hist

\* ------------------------------------------------------------------------
\* AnimationThread.run of src/rotate.py

\* history of a step of the thread; a2: the player after the step
ThreadHist(name, a2, iteration) ==
    /\ Step(name, None)
    /\ audio' = a2
    /\ release_unsynced' = (release_unsynced /\ a2.started = None
                            /\ a2.playing /\ ~a2.paused)
    /\ stale_iteration' = (iteration /\ release_unsynced
                           /\ a2.started = None /\ a2.playing /\ ~a2.paused)
    /\ iter_hist' = IF iteration THEN IterNext(Commanded(Fresh(audio), a2))
                    ELSE iter_hist
    /\ UNCHANGED <<pending_set, start_after_set>>

\* lines 773-778: load the file chosen in main(); a decode error raises out
\* of run() and ends the thread
AnimationThread_load ==
    /\ RenderThread
    /\ th_pc = "start"
    /\ IF audio_file
       THEN \E result \in TrackLens \cup {None} :
               IF result = None
               THEN th_pc' = "crashed"
                    /\ ThreadHist("load", Fresh(audio), FALSE)
               ELSE th_pc' = "loaded"
                    /\ ThreadHist("load",
                          RotatePlayer_load_file(Fresh(audio), result), FALSE)
       ELSE th_pc' = "loaded" /\ ThreadHist("load", Fresh(audio), FALSE)
    /\ UNCHANGED <<impl, closed, transportVars, uiVars, th_paused,
                   th_rewind_mode, th_speed, audio_file, th_pending>>

\* line 781
AnimationThread_connect ==
    /\ RenderThread
    /\ th_pc = "loaded"
    /\ th_pc' = "connected"
    /\ ThreadHist("connect", Fresh(audio), FALSE)
    /\ UNCHANGED <<impl, closed, transportVars, uiVars, th_paused,
                   th_rewind_mode, th_speed, audio_file, th_pending>>

\* lines 795-797
AnimationThread_init_fields ==
    /\ RenderThread
    /\ th_pc = "connected"
    /\ th_pc' = "loop"
    /\ th_paused' = TRUE
    /\ th_rewind_mode' = FALSE
    /\ th_speed' = NormalSpeed
    /\ ThreadHist("init_fields", Fresh(audio), FALSE)
    /\ UNCHANGED <<impl, closed, transportVars, uiVars, audio_file, th_pending>>

\* variant of the sync block: forward playback calls play in every
\* iteration
AnimationThread_sync_audio_every_iteration(a, d) ==
    IF th_paused
    THEN IF a.playing /\ ~a.paused THEN RotatePlayer_pause(a, d) ELSE a
    ELSE IF th_rewind_mode
         THEN IF ~a.is_rewinding THEN RotatePlayer_start_rewind(a) ELSE a
         ELSE LET a1 == IF a.is_rewinding THEN RotatePlayer_stop_rewind(a)
                        ELSE a
              IN IF audio_file
                 THEN RotatePlayer_play(a1, elapsed) ELSE a1

\* lines 853-865: sync audio player with progress window state
AnimationThread_sync_audio(a, d) ==
    IF th_paused
    THEN IF a.playing /\ ~a.paused THEN RotatePlayer_pause(a, d) ELSE a
    ELSE IF th_rewind_mode
         THEN IF ~a.is_rewinding THEN RotatePlayer_start_rewind(a) ELSE a
         ELSE LET a1 == IF a.is_rewinding THEN RotatePlayer_stop_rewind(a)
                        ELSE a
              IN IF (a1.paused \/ ~a1.playing) /\ audio_file
                 THEN RotatePlayer_play(a1, elapsed) ELSE a1

\* lines 867-869: sync speed with progress window
AnimationThread_sync_speed(a) ==
    IF a.speed # th_speed THEN RotatePlayer_set_speed(a, th_speed) ELSE a

\* one iteration of the render loop, lines 799-917: the audio and speed
\* sync; the controller, the pygame events and the drawing share no field
\* with the transport or the player
AnimationThread_iteration ==
    /\ RenderThread
    /\ th_pc = "loop"
    /\ \E d \in StreamTimes :
          ThreadHist("iteration",
              AnimationThread_sync_speed(
                  AnimationThread_sync_audio(Fresh(audio), d)), TRUE)
    /\ UNCHANGED <<impl, closed, transportVars, uiVars, threadVars>>

ThreadedNext ==
    \/ ProgressWindow_update_ui
    \/ ProgressWindow_slider_pressed
    \/ ProgressWindow_slider_changed
    \/ ProgressWindow_slider_released
    \/ ProgressWindow_toggle_play_pause
    \/ ProgressWindow_toggle_rewind
    \/ ProgressWindow_toggle_speed
    \/ AnimationThread_handle_progress_signals_rest
    \/ AnimationThread_load
    \/ AnimationThread_connect
    \/ AnimationThread_init_fields
    \/ AnimationThread_iteration

\* ------------------------------------------------------------------------
\* self.subdivisions of the widget, the argument of the call in run()
Subdivisions == 5

\* before create_tessellated_cube(size=1.0, subdivisions=n) is called
GeomInit(n) ==
    [pc |-> "start", subdivisions |-> n, face |-> 0, i |-> 0, j |-> 0,
     vertices |-> <<>>, grid_indices |-> <<>>, edges |-> <<>>,
     sphere_vertices |-> <<>>, point |-> <<>>, idx |-> None,
     elapsed |-> None, t |-> None, morphed_vertices |-> <<>>]

\* numbers of SmoothValue and RotationController are kept in steps of
\* 1/Resolution, every product rounded to the nearest step
Resolution == 1000

\* SmoothValue(initial, smoothing)
SmoothValue(initial, smoothing) ==
    [current |-> initial, target |-> initial, smoothing |-> smoothing]

\* RotationController.__init__, and dragging for last_mouse_pos is not None.
\* In the threaded program phase is the position of run() in an iteration
\* ("top" before controller.update, "events" after it) and
\* animation_completed its local variable.
\* History: last is the last handler, before the momentum pair and pre all
\* fields before it, move the arguments of the last mouse movement, idle
\* the updates since the last input, inputs the number of inputs; zero_stop
\* says that the last input was a stop_orbit made with velocity 0 on both
\* axes, and manual by which input auto-rotation was last switched off
\* ("press", "space") if no release and no further space key followed
ControllerInit ==
    [rotation_x |-> SmoothValue(0, (8 * Resolution) \div 10),
     rotation_y |-> SmoothValue(0, (8 * Resolution) \div 10),
     momentum_x |-> 0, momentum_y |-> 0,
     velocity_x |-> SmoothValue(0, (6 * Resolution) \div 10),
     velocity_y |-> SmoothValue(0, (6 * Resolution) \div 10),
     auto_rotation |-> TRUE,
     transition |-> SmoothValue(Resolution, (95 * Resolution) \div 100),
     dragging |-> FALSE, phase |-> "top", animation_completed |-> FALSE,
     last |-> "init", before |-> <<0, 0>>, idle |-> 0, inputs |-> 0,
     zero_stop |-> FALSE, manual |-> "none", pre |-> <<>>, move |-> <<>>]

\* a SmoothValue on its own.  History: last is the last call, before the
\* pair of current and target before it, updates the number of update()
\* calls since the last set_target, targets the number of set_target calls
SmoothInit(initial, smoothing) ==
    [value |-> SmoothValue(initial, smoothing), last |-> "init",
     before |-> <<initial, initial>>, updates |-> 0, targets |-> 0]

\* the transport, the player and the controls after construction
InitSession ==
    /\ impl \in {"window", "threaded"}
    /\ elapsed = 0
    /\ paused = TRUE
    /\ rewind_mode = FALSE
    /\ speed = NormalSpeed
    /\ slider_value = 0
    /\ slider_being_dragged = FALSE
    /\ play_pause_btn = "Play"
    /\ rewind_btn = "Rewind"
    /\ speed_btn = "1x"
    /\ audio_btn = "Audio"
    /\ audio = AudioInit
    /\ th_pc = "start"
    /\ th_paused = TRUE
    /\ th_rewind_mode = FALSE
    /\ th_speed = NormalSpeed
    /\ audio_file \in (IF impl = "threaded" THEN BOOLEAN ELSE {FALSE})
    /\ op = "init"
    /\ pre = [elapsed |-> 0, paused |-> TRUE, rewind_mode |-> FALSE,
              speed |-> NormalSpeed]
    /\ pending_set = FALSE
    /\ start_after_set = FALSE
    /\ seek_arg = None
    /\ rewind_twice_from = "none"
    /\ release_unsynced = FALSE
    /\ stale_iteration = FALSE
    /\ th_pending = <<>>
    /\ closed = FALSE
    /\ iter_hist = "changed"
    /\ pre_audio = AudioInit

\* a session: the geometry of the hard-coded subdivisions, the controller
\* and a SmoothValue are left as constructed
Init ==
    /\ InitSession
    /\ geom = GeomInit(Subdivisions)
    /\ controller = ControllerInit
    /\ smooth = SmoothInit(0, (8 * Resolution) \div 10)

Next == WindowNext \/ ThreadedNext

Spec == Init /\ [][Next]_vars

\* the same program with programmatic calls of set_position
NextSeek == Next \/ Widget_set_position_call

SpecSeek == Init /\ [][NextSeek]_vars

\* ------------------------------------------------------------------------
\* Closing the session

\* MainWindow.closeEvent: the player is cleaned up and the event accepted;
\* animation_timer and ui_timer are left running and no handler tests for
\* a closed window, so the handlers stay enabled while the event loop runs
MainWindow_closeEvent ==
    /\ impl = "window"
    /\ ~closed
    /\ closed' = TRUE
    /\ LET a2 == Player_cleanup(Fresh(audio))
       IN audio' = a2 /\ Hist("closeEvent", a2, FALSE)
    /\ UNCHANGED <<impl, transportVars, uiVars, threadVars, release_unsynced,
                   stale_iteration>>

\* ProgressWindow.closeEvent: running = False and os._exit(0); the process
\* is gone, nothing runs afterwards
ProgressWindow_closeEvent ==
    /\ GuiThread
    /\ closed' = TRUE
    /\ UNCHANGED <<impl, transportVars, uiVars, threadVars>>
    /\ WindowHist("closeEvent", FALSE)

\* AnimationThread.run, lines 808-819: pygame.QUIT or the Escape key end
\* the process with os._exit(0)
AnimationThread_quit ==
    /\ RenderThread
    /\ th_pc = "loop"
    /\ closed' = TRUE
    /\ ThreadHist("quit", Fresh(audio), FALSE)
    /\ UNCHANGED <<impl, transportVars, uiVars, threadVars>>

NextClose ==
    \/ Next
    \/ MainWindow_closeEvent
    \/ ProgressWindow_closeEvent
    \/ AnimationThread_quit

SpecClose == Init /\ [][NextClose]_vars

\* ------------------------------------------------------------------------
\* The audio adapter on its own: EnhancedAudioPlayer (of src/modules/audio.py
\* when impl = "window", of src/rotate.py when impl = "threaded") under any
\* sequence of calls of its methods.

\* arguments of play(from_pos)
PlayInputs == {None, 0, 1, duration}

\* current_position grows with every pause; the calls stop there
MaxPosition == LongTrack + MaxStreamTime

\* a call of a method: a2 is the player after it
PlayerCall(name, arg, a2) ==
    /\ op' = name
    /\ seek_arg' = arg
    /\ pre_audio' = Fresh(audio)
    /\ audio' = a2
    /\ UNCHANGED <<impl, closed, transportVars, uiVars, threadVars, pre,
                   pending_set, start_after_set, rewind_twice_from,
                   release_unsynced, stale_iteration, iter_hist, partVars>>

EnhancedAudioPlayer_load_file ==
    \E result \in TrackLens \cup {None} :
       \* rotate.py: a decode error raises and assigns nothing
       PlayerCall("player.load_file", None,
           IF impl = "window" THEN Player_load_file(Fresh(audio), result)
           ELSE IF result = None THEN Fresh(audio)
           ELSE RotatePlayer_load_file(Fresh(audio), result))

EnhancedAudioPlayer_play ==
    \E from_pos \in PlayInputs :
       PlayerCall("player.play", from_pos,
           IF impl = "window" THEN Player_play(Fresh(audio), from_pos)
           ELSE RotatePlayer_play(Fresh(audio), from_pos))

EnhancedAudioPlayer_pause ==
    \E d \in StreamTimes :
       /\ audio.current_position + d <= MaxPosition
       /\ PlayerCall("player.pause", None,
              IF impl = "window" THEN Player_pause(Fresh(audio), d)
              ELSE RotatePlayer_pause(Fresh(audio), d))

EnhancedAudioPlayer_resume ==
    PlayerCall("player.resume", None,
        IF impl = "window" THEN Player_resume(Fresh(audio))
        ELSE RotatePlayer_resume(Fresh(audio)))

EnhancedAudioPlayer_set_position ==
    \E position_seconds \in SeekInputs :
       PlayerCall("player.set_position", position_seconds,
           IF impl = "window"
           THEN Player_set_position(Fresh(audio), position_seconds)
           ELSE RotatePlayer_set_position(Fresh(audio), position_seconds))

EnhancedAudioPlayer_set_speed ==
    \E s \in {NormalSpeed, FastSpeed} :
       PlayerCall("player.set_speed", None,
           IF impl = "window" THEN Player_set_speed(Fresh(audio), s)
           ELSE RotatePlayer_set_speed(Fresh(audio), s))

EnhancedAudioPlayer_start_rewind ==
    PlayerCall("player.start_rewind", None,
        IF impl = "window" THEN Player_start_rewind(Fresh(audio))
        ELSE RotatePlayer_start_rewind(Fresh(audio)))

EnhancedAudioPlayer_stop_rewind ==
    PlayerCall("player.stop_rewind", None,
        IF impl = "window" THEN Player_stop_rewind(Fresh(audio))
        ELSE RotatePlayer_stop_rewind(Fresh(audio)))

EnhancedAudioPlayer_cleanup ==
    PlayerCall("player.cleanup", None,
        IF impl = "window" THEN Player_cleanup(Fresh(audio))
        ELSE RotatePlayer_cleanup(Fresh(audio)))

NextPlayer ==
    \/ EnhancedAudioPlayer_load_file
    \/ EnhancedAudioPlayer_play
    \/ EnhancedAudioPlayer_pause
    \/ EnhancedAudioPlayer_resume
    \/ EnhancedAudioPlayer_set_position
    \/ EnhancedAudioPlayer_set_speed
    \/ EnhancedAudioPlayer_start_rewind
    \/ EnhancedAudioPlayer_stop_rewind
    \/ EnhancedAudioPlayer_cleanup

SpecPlayer == Init /\ [][NextPlayer]_vars


\* ========================================================================
\* Properties

\* the last handler was the transport's tick
Ticked == \/ impl = "window" /\ op = "update_animation"
          \/ impl = "threaded" /\ op = "update_ui"

ForwardStep == TickStep * pre.speed
RewindStep == TickStep * RewindFactor

\* C1: in every reachable state, under any interleaving of ticks, toggles,
\* slider press/drag/release and set_position calls, 0 <= elapsed <= duration.
C1_ElapsedInRange == 0 <= elapsed /\ elapsed <= duration

\* a forward tick went past duration and was clamped
C1_Witness ==
    /\ Ticked /\ PrePlayingForward
    /\ pre.elapsed + ForwardStep > duration
    /\ elapsed = duration

\* C2: the transport is always in exactly one of Paused, PlayingForward,
\* Rewinding: rewind_mode and paused are never both true.
C2_OneState == ~(rewind_mode /\ paused)

\* a rewind was stopped by toggle_rewind and left the transport Paused
C2_Witness == op = "toggle_rewind" /\ PreRewinding /\ Paused

\* C3: a tick in PlayingForward whose advance reaches duration (exactly or
\* beyond) ends with elapsed = duration and the transport Paused; after a
\* tick, no state has elapsed = duration and is still PlayingForward.
C3_Claim ==
    /\ (Ticked /\ PrePlayingForward /\ pre.elapsed + ForwardStep >= duration)
          => (elapsed = duration /\ Paused)
    /\ Ticked => ~(elapsed = duration /\ PlayingForward)

\* C4: a tick in Rewinding whose decrement reaches 0 (exactly or beyond) ends
\* with elapsed = 0 and the transport Paused.
C4_Claim ==
    (Ticked /\ PreRewinding /\ pre.elapsed - RewindStep <= 0)
       => (elapsed = 0 /\ Paused)

\* C5: a tick in PlayingForward that stays below duration adds exactly
\* dt*speed and stays PlayingForward; a tick in Rewinding that stays above 0
\* subtracts exactly dt*2 whatever the speed and stays Rewinding; a tick in
\* Paused leaves elapsed unchanged.
C5_TickAdvance ==
    Ticked =>
       /\ (PrePlayingForward /\ pre.elapsed + ForwardStep < duration)
             => (elapsed = pre.elapsed + ForwardStep /\ PlayingForward)
       /\ (PreRewinding /\ pre.elapsed - RewindStep > 0)
             => (elapsed = pre.elapsed - RewindStep /\ Rewinding)
       /\ PrePaused => (elapsed = pre.elapsed /\ Paused)
       /\ speed = pre.speed

\* a rewind tick at speed 1x moved elapsed by the 2x rewind step
C5_Witness ==
    /\ Ticked /\ PreRewinding /\ pre.speed = NormalSpeed
    /\ elapsed = pre.elapsed - RewindStep /\ elapsed > 0 /\ Rewinding

Clamp(p) == IF p < 0 THEN 0 ELSE IF p > duration THEN duration ELSE p

\* C6: set_position(p) sets elapsed to clamp(p, 0, duration) in every
\* transport state and leaves paused, rewind_mode and speed unchanged; so
\* does the seek of a slider release.
C6_SeekClamps ==
    /\ op = "set_position" =>
          /\ elapsed = Clamp(seek_arg)
          /\ paused = pre.paused /\ rewind_mode = pre.rewind_mode
          /\ speed = pre.speed
    /\ op = "slider_released" =>
          /\ elapsed = Clamp(SliderPosition(slider_value))
          /\ paused = pre.paused /\ rewind_mode = pre.rewind_mode
          /\ speed = pre.speed

\* a seek to duration + 100 during a rewind ended at duration
C6_Witness ==
    /\ op = "set_position" /\ seek_arg = duration + 100
    /\ elapsed = duration /\ Rewinding /\ pre.elapsed < duration

\* C7: toggle_play_pause takes Paused to PlayingForward, PlayingForward to
\* Paused and Rewinding to Paused; afterwards rewind_mode is false, and
\* elapsed and speed are unchanged.
C7_TogglePlayPause ==
    op = "toggle_play_pause" =>
       /\ ~rewind_mode
       /\ elapsed = pre.elapsed /\ speed = pre.speed
       /\ PrePaused => PlayingForward
       /\ PrePlayingForward => Paused
       /\ PreRewinding => Paused

\* toggle_play_pause was invoked during a rewind
C7_Witness ==
    op = "toggle_play_pause" /\ PreRewinding /\ Paused /\ elapsed > 0

\* the effect of one toggle_rewind call
ToggleRewindOnce ==
    op = "toggle_rewind" =>
       /\ (PrePlayingForward \/ PrePaused) => Rewinding
       /\ PreRewinding => Paused
       /\ elapsed = pre.elapsed /\ speed = pre.speed

\* C8 as stated: toggle_rewind takes PlayingForward and Paused to Rewinding
\* and Rewinding to Paused, leaving elapsed and speed unchanged; two
\* toggle_rewind calls in a row always end in Paused.
C8_Claim ==
    /\ ToggleRewindOnce
    /\ rewind_twice_from # "none" => Paused

\* C8 amended: ... two toggle_rewind calls in a row end in Paused when the
\* first is made in Paused or PlayingForward, and end in Rewinding when the
\* first is made in Rewinding.
C8_ToggleRewind ==
    /\ ToggleRewindOnce
    /\ rewind_twice_from \in {"Paused", "PlayingForward"} => Paused
    /\ rewind_twice_from = "Rewinding" => Rewinding

\* two toggle_rewind calls in a row, the first made while Rewinding
C8_Witness == rewind_twice_from = "Rewinding" /\ Rewinding

\* C9: window implementation: once elapsed has been explicitly set (slider
\* release, rewind completing at 0), the next start of audio playback is at
\* the transport's elapsed of that moment, clamped to the track length.
\* (Stated for the starts made while no drag previews a position.)
C9_Claim ==
    (impl = "window" /\ start_after_set /\ ~slider_being_dragged)
       => audio.started = Min(elapsed, audio.audio_data)

\* C10: threaded implementation: after a slider release during forward
\* playback with audio playing, the render loop restarts playback at the
\* new elapsed: no iteration ends with the audio still playing from the
\* offset of before the release.
C10_Claim == impl = "threaded" => ~stale_iteration

\* clamp(s, 0, track_length)
ClampTrack(s, len) == Max(0, Min(s, len))

PreActive == pre_audio.playing /\ ~pre_audio.paused

Active == audio.playing /\ ~audio.paused

\* C12: window implementation: a speed change made while the transport is
\* PlayingForward and audio is playing gives the player the new speed and
\* restarts the audio at the transport's elapsed of that moment.
\* (Stated for the changes made while no drag previews a position.)
C12_Claim ==
    (impl = "window" /\ op = "toggle_speed" /\ PrePlayingForward /\ Active
     /\ ~slider_being_dragged)
       => (audio.speed = speed /\ audio.play_arg = elapsed)

\* C13: window implementation: in every state in which the transport is
\* Paused, the automatic pauses at duration and at 0 included, the player is
\* not actively playing.
C13_Claim == (impl = "window" /\ Paused) => ~Active

\* C14: in every state in which the transport is Rewinding the player is
\* not actively playing.  In the threaded implementation the player follows
\* in the render loop, so the state is taken at the end of an iteration
\* that has read the rewind.
C14_Claim ==
    /\ (impl = "window" /\ Rewinding) => ~Active
    /\ (impl = "threaded" /\ Rewinding /\ op = "iteration"
        /\ ~th_paused /\ th_rewind_mode /\ th_pending = <<>>) => ~Active

\* C15: a tick (window implementation) or a render-loop iteration (threaded
\* implementation) made while paused, rewind_mode, speed and the seek
\* position have not changed since the tick or iteration before it issues
\* no audio command.
C15_NoIdleCommand == iter_hist # "noisy"

\* a second iteration in a row during forward playback with audio playing
C15_Witness ==
    /\ impl = "threaded" /\ op = "iteration" /\ iter_hist = "quiet"
    /\ ~th_paused /\ ~th_rewind_mode /\ Active /\ audio.sounding

\* C16: threaded implementation: no iteration of the render loop runs on a
\* half-applied signal, that is with paused already set from the signal and
\* rewind_mode still at its value of before the signal; so a toggle_rewind
\* made in Paused is never read as forward playback.
C16_Claim ==
    (impl = "threaded" /\ op = "iteration" /\ th_pending # <<>>)
       => ~(th_paused # th_pending[2] /\ th_rewind_mode # th_pending[1])

\* the last handler was a tick source of the window implementation
TimerFired == op \in {"update_animation", "update_ui"}

\* the last handler was an input event of the window implementation
InputEvent == op \in {"slider_pressed", "slider_changed", "slider_released",
                      "toggle_play_pause", "toggle_rewind", "toggle_speed"}

\* C17: window implementation: after closeEvent has run the player is not
\* playing and neither update_animation nor update_ui runs again.
C17_Claim ==
    (impl = "window" /\ closed) => (~audio.playing /\ ~TimerFired)

\* C18: window implementation: an input event handled after closeEvent has
\* run leaves the transport and the player unchanged and starts no audio.
C18_Claim ==
    (impl = "window" /\ closed /\ InputEvent)
       => (Transport = pre /\ audio.play_arg = None /\ ~audio.playing)

\* the last handler was a load attempt of the window that failed
LoadFailed == impl = "window" /\ op = "load_audio_file"
              /\ audio_btn = "NoAudio"

\* C19: a failing audio load does not raise to the caller (the render
\* thread's run() is not ended by it); after a failed load attempt the
\* player is stopped (playing and paused both false) and the transport's
\* elapsed, paused, rewind_mode and speed are unchanged.
C19_Claim ==
    /\ th_pc # "crashed"
    /\ LoadFailed => (~audio.playing /\ ~audio.paused /\ Transport = pre)

\* C20: window implementation: from a failed load until a later load
\* succeeds the UI shows the no-audio indicator and no handler plays audio,
\* also when a file had been loaded before the failure.
C20_Claim ==
    (impl = "window" /\ audio_btn = "NoAudio")
       => (audio.started = None /\ ~audio.sounding)

\* cleanup() of the player class in use
Cleanup(a) == IF impl = "window" THEN Player_cleanup(a)
              ELSE RotatePlayer_cleanup(a)

\* C21: from every player state cleanup() leaves playing, paused and
\* is_rewinding false (and the device stopped), and a second cleanup()
\* yields exactly the state of the first.
C21_CleanupIdempotent ==
    op = "player.cleanup" =>
       /\ ~audio.playing /\ ~audio.paused /\ ~audio.is_rewinding
       /\ ~audio.sounding
       /\ Cleanup(audio) = audio
       /\ (~pre_audio.playing /\ ~pre_audio.paused /\ ~pre_audio.is_rewinding
           /\ ~pre_audio.sounding) => audio = pre_audio

\* cleanup() was called on a paused player during a rewind
C21_Witness ==
    /\ op = "player.cleanup"
    /\ pre_audio.playing /\ pre_audio.paused /\ pre_audio.is_rewinding
    /\ ~audio.playing

\* ------------------------------------------------------------------------
\* Geometry: the tessellated cube, its sphere and the morph of a frame
\*
\* A coordinate of a grid point with subdivisions = n is a multiple of
\* 1/(n*n); the model keeps the integer numerator.  Indices are 0-based as
\* in the source; the element with index k of a list is the (k+1)-th of
\* the sequence.

\* largest subdivisions argument explored
MaxSubdivisions == 5
\* round(x, 6): the number of steps per unit of the rounded key
Million == 1000000
\* np.allclose defaults: 1/atol and the ratio rtol/atol
AtolInv == 100000000
RtolOverAtol == 1000
\* 1/0.0001, the distance below which a vertex is sent to the origin
DistanceEpsInv == 10000
\* sphere coordinates are kept in steps of 1/SphereUnits
SphereUnits == 100

Abs(x) == IF x < 0 THEN -x ELSE x

\* basic_vertices with size = 1.0
cube_vertices ==
    << <<-1, -1, -1>>, <<1, -1, -1>>, <<1, 1, -1>>, <<-1, 1, -1>>,
       <<-1, -1, 1>>,  <<1, -1, 1>>,  <<1, 1, 1>>,  <<-1, 1, 1>> >>

cube_quads ==
    << <<0, 3, 2, 1>>, <<4, 5, 6, 7>>, <<0, 1, 5, 4>>,
       <<3, 7, 6, 2>>, <<0, 4, 7, 3>>, <<1, 2, 6, 5>> >>

\* interpolate(v1, v2, t) with t = num/den, times den
interpolate(v1, v2, num, den) ==
    [k \in 1..3 |-> v1[k] * den + (v2[k] - v1[k]) * num]

\* the point of row i, column j of the grid of face number f (from 0)
GridPoint(f, i, j, n) ==
    LET corners == [c \in 1..4 |-> cube_vertices[cube_quads[f + 1][c] + 1]]
        edge1 == interpolate(corners[1], corners[2], j, n)
        edge2 == interpolate(corners[4], corners[3], j, n)
    IN interpolate(edge1, edge2, i, n)

\* round(x, 6) of the coordinate x = c/(n*n), in millionths
Round6(c, n) == (2 * c * Million + n * n) \div (2 * n * n)

point_tuple(point, n) == [k \in 1..3 |-> Round6(point[k], n)]

\* np.allclose(v, existing): |v - existing| <= atol + rtol * |existing|
\* in every component
allclose(v, existing, n) ==
    \A k \in 1..3 :
        Abs(v[k] - existing[k])
            <= (n * n + RtolOverAtol * Abs(existing[k])) \div AtolInv

\* variant: the index is taken before one is subtracted
NewIndex_len(vertices) == Len(vertices)

\* the index a newly appended vertex gets
NewIndex(vertices) == Len(vertices) - 1

\* variant: no point is ever recognised
Known_none(vertices, point, n) == {}

\* the indices of the vertices that count as the point already emitted:
\* the key of vertex_cache in the window program, the linear search with
\* np.allclose in the threaded one
Known(vertices, point, n) ==
    IF impl = "window"
    THEN {k \in 0..(Len(vertices) - 1) :
              point_tuple(vertices[k + 1], n) = point_tuple(point, n)}
    ELSE {k \in 0..(Len(vertices) - 1) : allclose(point, vertices[k + 1], n)}

\* add_vertex / the vertex_cache lookup: the index of the point and the
\* vertex list afterwards
add_vertex(vertices, point, n) ==
    LET known == Known(vertices, point, n)
    IN IF known # {}
       THEN [idx |-> CHOOSE k \in known : \A m \in known : k <= m,
             vertices |-> vertices]
       ELSE [idx |-> NewIndex(Append(vertices, point)),
             vertices |-> Append(vertices, point)]

\* grid_indices[i][j]; the rows are kept one after the other
GridIndex(grid_indices, n, i, j) == grid_indices[i * (n + 1) + j + 1]

\* variant of the edge loop: the last row gets no horizontal edge
EdgesAt_no_last_row(grid_indices, n, i, j) ==
    IF i < n
    THEN <<  <<GridIndex(grid_indices, n, i, j),
               GridIndex(grid_indices, n, i, j + 1)>>,
             <<GridIndex(grid_indices, n, i, j),
               GridIndex(grid_indices, n, i + 1, j)>>  >>
    ELSE <<>>

\* the edges appended for row i, column j: the horizontal one, then the
\* vertical one if i is not the last row
EdgesAt(grid_indices, n, i, j) ==
    <<  <<GridIndex(grid_indices, n, i, j),
          GridIndex(grid_indices, n, i, j + 1)>>  >>
    \o (IF i < n
        THEN <<  <<GridIndex(grid_indices, n, i, j),
                   GridIndex(grid_indices, n, i + 1, j)>>  >>
        ELSE <<>>)

\* for i in range(n + 1): for j in range(n): ... from row i, column j on
RECURSIVE EdgesFrom(_, _, _, _)
EdgesFrom(grid_indices, n, i, j) ==
    IF i > n THEN <<>>
    ELSE IF j >= n THEN EdgesFrom(grid_indices, n, i + 1, 0)
    ELSE EdgesAt(grid_indices, n, i, j)
         \o EdgesFrom(grid_indices, n, i, j + 1)

\* sqrt of m, rounded down; hi is any number not below it
Isqrt(m, hi) == CHOOSE r \in 0..hi : r * r <= m /\ m < (r + 1) * (r + 1)

\* the sphere vertex of one cube vertex (radius 1.0), in 1/SphereUnits
sphere_vertex(v, n) ==
    LET q == v[1] * v[1] + v[2] * v[2] + v[3] * v[3]
        \* distance, in steps of 1/(n*n*SphereUnits)
        distance == Isqrt(q * SphereUnits * SphereUnits,
                          (Abs(v[1]) + Abs(v[2]) + Abs(v[3])) * SphereUnits)
    IN IF distance * DistanceEpsInv < n * n * SphereUnits
       THEN <<0, 0, 0>>
       ELSE [k \in 1..3 |->
                (IF v[k] < 0 THEN -1 ELSE 1)
                * ((Abs(v[k]) * SphereUnits * SphereUnits) \div distance)]

generate_sphere_vertices(vertices, n) ==
    [k \in 1..Len(vertices) |-> sphere_vertex(vertices[k], n)]

\* get_normalized_elapsed(): min(1.0, max(0.0, elapsed / duration)), times
\* duration
get_normalized_elapsed(e) == Min(duration, Max(0, e))

\* variant of lerp: the start point is left out
lerp_offset_only(start, end, num) == (end - start) * num

\* lerp(start, end, t) of one coordinate with t = num/duration, times
\* duration
lerp(start, end, num) == start * duration + (end - start) * num

\* the morphed vertices of a frame: the cube coordinate c/(n*n) and the
\* sphere coordinate s/SphereUnits are brought to steps of
\* 1/(n*n*SphereUnits) first
morphed_vertices(vertices, sphere, n, num) ==
    [k \in 1..Len(vertices) |->
        [c \in 1..3 |-> lerp(vertices[k][c] * SphereUnits,
                             sphere[k][c] * n * n, num)]]

\* the subdivisions arguments explored; the program itself passes 5
SubdivisionInputs == (-1)..MaxSubdivisions

\* everything but the geometry
notGeom == <<impl, transportVars, uiVars, audio, threadVars, closed, histVars,
             controller, smooth>>

\* entry of create_tessellated_cube up to the first grid point: with
\* subdivisions + 1 <= 0 the loops of every face are empty and the empty
\* lists are returned; with subdivisions = 0 the first t1 = i / subdivisions
\* raises ZeroDivisionError
create_tessellated_cube ==
    /\ geom.pc = "start"
    /\ geom' = [geom EXCEPT !.pc = IF geom.subdivisions < 0 THEN "sphere"
                                   ELSE IF geom.subdivisions = 0
                                        THEN "ZeroDivisionError"
                                        ELSE "grid"]
    /\ UNCHANGED notGeom

\* one pass of the inner loop: the point of row i, column j is computed and
\* added, its index appended to the row
create_tessellated_cube_point ==
    /\ geom.pc = "grid"
    /\ LET n == geom.subdivisions
           point == GridPoint(geom.face, geom.i, geom.j, n)
           added == add_vertex(geom.vertices, point, n)
           last_j == geom.j = n
           last_i == geom.i = n
       IN geom' = [geom EXCEPT
                     !.vertices = added.vertices,
                     !.grid_indices = Append(@, added.idx),
                     !.point = point,
                     !.idx = added.idx,
                     !.j = IF last_j THEN 0 ELSE @ + 1,
                     !.i = IF last_j THEN (IF last_i THEN 0 ELSE @ + 1) ELSE @,
                     !.pc = IF last_j /\ last_i THEN "edges" ELSE "grid"]
    /\ UNCHANGED notGeom

\* the edge loop of one face, then the next face or the return
create_tessellated_cube_edges ==
    /\ geom.pc = "edges"
    /\ geom' = [geom EXCEPT
                  !.edges = @ \o EdgesFrom(geom.grid_indices,
                                           geom.subdivisions, 0, 0),
                  !.grid_indices = <<>>,
                  !.face = IF @ = 5 THEN @ ELSE @ + 1,
                  !.pc = IF geom.face = 5 THEN "sphere" ELSE "grid"]
    /\ UNCHANGED notGeom

\* generate_sphere_vertices(cube_vertices)
create_sphere ==
    /\ geom.pc = "sphere"
    /\ geom' = [geom EXCEPT
                  !.sphere_vertices =
                      generate_sphere_vertices(geom.vertices,
                                               geom.subdivisions),
                  !.pc = "done"]
    /\ UNCHANGED notGeom

\* a frame: t = get_normalized_elapsed() and draw_morphed_shape(t), at
\* any elapsed time of the run
draw_morphed_shape ==
    /\ geom.pc = "done"
    /\ \E e \in 0..duration :
          LET num == get_normalized_elapsed(e)
          IN geom' = [geom EXCEPT
                        !.elapsed = e,
                        !.t = num,
                        !.morphed_vertices =
                            morphed_vertices(geom.vertices,
                                             geom.sphere_vertices,
                                             geom.subdivisions, num)]
    /\ UNCHANGED notGeom

NextGeometry ==
    \/ create_tessellated_cube
    \/ create_tessellated_cube_point
    \/ create_tessellated_cube_edges
    \/ create_sphere
    \/ draw_morphed_shape

\* the builder called with each argument in turn
InitGeometry ==
    /\ InitSession
    /\ geom \in {GeomInit(n) : n \in SubdivisionInputs}
    /\ controller = ControllerInit
    /\ smooth = SmoothInit(0, (8 * Resolution) \div 10)

SpecGeometry == InitGeometry /\ [][NextGeometry]_vars

\* ------------------------------------------------------------------------
\* Properties of the geometry

\* the builder and generate_sphere_vertices have returned
Built == geom.pc = "done"

\* C22: for subdivisions >= 1 the cube and the sphere vertex lists have the
\* same length and every index stored in an edge is at least 0 and less
\* than that length.
C22_IndicesInRange ==
    (Built /\ geom.subdivisions >= 1) =>
        /\ Len(geom.sphere_vertices) = Len(geom.vertices)
        /\ \A e \in 1..Len(geom.edges) :
              \A c \in 1..2 :
                 /\ geom.edges[e][c] >= 0
                 /\ geom.edges[e][c] < Len(geom.vertices)

\* a mesh with more than one cell per face has been built
C22_Witness ==
    /\ Built
    /\ geom.subdivisions >= 2
    /\ Len(geom.edges) > 0
    /\ Len(geom.sphere_vertices) > 8

\* C23: a grid point whose coordinates were already emitted gets the index
\* of the earlier point: the index returned for a point always holds the
\* coordinates of that point, no two indices hold the same coordinates, and
\* a finished cube of subdivisions n >= 1 has exactly 6*n*n + 2 vertices.
C23_Deduplicated ==
    /\ geom.idx # None => geom.vertices[geom.idx + 1] = geom.point
    /\ \A a, b \in 1..Len(geom.vertices) :
          geom.vertices[a] = geom.vertices[b] => a = b
    /\ (Built /\ geom.subdivisions >= 1) =>
          Len(geom.vertices) = 6 * geom.subdivisions * geom.subdivisions + 2

\* a point on a border shared with an earlier face was given an index
\* that is not the newest one
C23_Witness ==
    /\ geom.face > 0
    /\ geom.idx # None
    /\ geom.idx < Len(geom.vertices) - 1
    /\ geom.subdivisions >= 2

\* the index holding the coordinates of a point
IndexOf(point) ==
    CHOOSE k \in 0..(Len(geom.vertices) - 1) : geom.vertices[k + 1] = point

\* some edge of the list joins the indices a and b, in either order
Joined(a, b) ==
    \E e \in 1..Len(geom.edges) :
        \/ geom.edges[e] = <<a, b>>
        \/ geom.edges[e] = <<b, a>>

\* C24: in the finished mesh, for every face and every pair of
\* horizontally or vertically adjacent points of its grid, last row and
\* last column included, the edge list holds an edge joining their indices.
C24_EdgeCoverage ==
    (Built /\ geom.subdivisions >= 1) =>
        LET n == geom.subdivisions
        IN \A f \in 0..5 : \A i, j \in 0..n :
              /\ j < n => Joined(IndexOf(GridPoint(f, i, j, n)),
                                 IndexOf(GridPoint(f, i, j + 1, n)))
              /\ i < n => Joined(IndexOf(GridPoint(f, i, j, n)),
                                 IndexOf(GridPoint(f, i + 1, j, n)))

\* a mesh whose faces have inner rows and columns was finished
C24_Witness ==
    /\ Built
    /\ geom.subdivisions = MaxSubdivisions
    /\ Len(geom.edges) >= 6 * 2 * MaxSubdivisions * MaxSubdivisions

\* C25: the edge list of a finished mesh is a set of unordered pairs: no
\* unordered pair of indices occurs at two positions of the list and no
\* edge joins an index to itself.
C25_EdgesAreASet ==
    (Built /\ geom.subdivisions >= 1) =>
        /\ \A e \in 1..Len(geom.edges) : geom.edges[e][1] # geom.edges[e][2]
        /\ \A d, e \in 1..Len(geom.edges) :
              (\/ geom.edges[d] = geom.edges[e]
               \/ geom.edges[d] = <<geom.edges[e][2], geom.edges[e][1]>>)
              => d = e

\* C26: a subdivisions argument below 1 is rejected before any grid
\* coordinate is computed: the builder neither evaluates i / subdivisions
\* nor returns a mesh.
C26_Rejected ==
    geom.subdivisions < 1 =>
        geom.pc \notin {"ZeroDivisionError", "grid", "edges", "sphere", "done"}

\* C27: the morph parameter of a frame is elapsed / duration clamped to
\* [0, 1]; the morphed vertices are the cube vertices at elapsed = 0 and
\* the sphere vertices at elapsed = duration.
C27_MorphEndpoints ==
    geom.t # None =>
        LET n == geom.subdivisions
            cube == geom.vertices
            sphere == geom.sphere_vertices
            morphed == geom.morphed_vertices
        IN /\ 0 <= geom.t /\ geom.t <= duration
           /\ (0 <= geom.elapsed /\ geom.elapsed <= duration)
                 => geom.t = geom.elapsed
           /\ Len(morphed) = Len(cube)
           /\ geom.elapsed = 0 =>
                 \A k \in 1..Len(cube) : \A c \in 1..3 :
                    morphed[k][c] = cube[k][c] * SphereUnits * duration
           /\ geom.elapsed = duration =>
                 \A k \in 1..Len(cube) : \A c \in 1..3 :
                    morphed[k][c] = sphere[k][c] * n * n * duration

\* the last frame of a run was drawn for a mesh whose sphere differs from
\* its cube
C27_Witness ==
    /\ geom.t # None
    /\ geom.elapsed = duration
    /\ geom.subdivisions >= 2
    /\ \E k \in 1..Len(geom.vertices) :
          geom.sphere_vertices[k][1] * geom.subdivisions * geom.subdivisions
             # geom.vertices[k][1] * SphereUnits

\* ------------------------------------------------------------------------
\* SmoothValue and RotationController
\*
\* A value x of the program is kept as the integer x * Resolution; a product
\* is rounded to the nearest step, as the floating point arithmetic of the
\* program rounds to the nearest representable number.

\* a / b rounded to the nearest integer, halves away from zero (b > 0)
RoundDiv(a, b) ==
    IF a >= 0 THEN (2 * a + b) \div (2 * b)
    ELSE -((2 * (-a) + b) \div (2 * b))

\* variant of update: the step is not scaled by 1.0 - smoothing
SmoothValue_update_jump(v) == [v EXCEPT !.current = v.target]

\* SmoothValue.update: current += (target - current) * (1.0 - smoothing)
SmoothValue_update(v) ==
    [v EXCEPT !.current =
        @ + RoundDiv((v.target - @) * (Resolution - v.smoothing), Resolution)]

\* SmoothValue.set_target
SmoothValue_set_target(v, value) == [v EXCEPT !.target = value]

\* the thresholds 0.01 and 0.3 of momentum and 0.95 of transition
MomentumEps == Resolution \div 100
MomentumResume == (3 * Resolution) \div 10
TransitionResume == (95 * Resolution) \div 100

\* momentum_multiplier = 0.2: velocity * 0.2
TimesMultiplier(velocity) == RoundDiv(velocity * 2, 10)

\* dynamic_damping in steps of 1/10000:
\* damping * (0.97 + 0.03 * (1.0 - min(1.0, velocity / 3.0))) with
\* damping = 0.95 and velocity = (|momentum_x| + |momentum_y|) * 0.5, that
\* is 0.95 - 0.0285 * min(1, (|momentum_x| + |momentum_y|) / 6)
dynamic_damping(momentum_x, momentum_y) ==
    9500 - (285 * Min(6 * Resolution, Abs(momentum_x) + Abs(momentum_y)))
               \div (6 * Resolution)

\* if abs(momentum) < 0.01: momentum = 0
ClearTiny(m) == IF Abs(m) < MomentumEps THEN 0 ELSE m

\* RotationController.update
RotationController_update(c) ==
    LET rx == SmoothValue_update(c.rotation_x)
        ry == SmoothValue_update(c.rotation_y)
        moving == \/ Abs(c.momentum_x) > MomentumEps
                  \/ Abs(c.momentum_y) > MomentumEps
        damping == dynamic_damping(c.momentum_x, c.momentum_y)
        mx == IF moving THEN RoundDiv(c.momentum_x * damping, 10000)
              ELSE c.momentum_x
        my == IF moving THEN RoundDiv(c.momentum_y * damping, 10000)
              ELSE c.momentum_y
    IN [c EXCEPT
          !.rotation_x = IF moving
                         THEN SmoothValue_set_target(rx, rx.current + c.momentum_x)
                         ELSE rx,
          !.rotation_y = IF moving
                         THEN SmoothValue_set_target(ry, ry.current + c.momentum_y)
                         ELSE ry,
          !.velocity_x = SmoothValue_update(@),
          !.velocity_y = SmoothValue_update(@),
          !.transition = SmoothValue_update(@),
          !.momentum_x = ClearTiny(mx),
          !.momentum_y = ClearTiny(my)]

\* variant of start_orbit: auto-rotation is left on
RotationController_start_orbit_keep_auto(c) ==
    [c EXCEPT !.transition = SmoothValue_set_target(@, 0)]

RotationController_start_orbit(c) ==
    [c EXCEPT !.auto_rotation = FALSE,
              !.transition = SmoothValue_set_target(@, 0)]

\* variant of stop_orbit: auto_rotation is not set
RotationController_stop_orbit_no_auto(c) ==
    [c EXCEPT !.momentum_x = TimesMultiplier(c.velocity_y.current),
              !.momentum_y = TimesMultiplier(c.velocity_x.current),
              !.transition = SmoothValue_set_target(@, Resolution)]

RotationController_stop_orbit(c) ==
    [c EXCEPT !.momentum_x = TimesMultiplier(c.velocity_y.current),
              !.momentum_y = TimesMultiplier(c.velocity_x.current),
              !.transition = SmoothValue_set_target(@, Resolution),
              !.auto_rotation = TRUE]

\* variant of should_resume_auto_rotation: momentum_y is not looked at
should_resume_auto_rotation_x_only(c) ==
    /\ Abs(c.momentum_x) < MomentumResume
    /\ c.transition.current > TransitionResume

should_resume_auto_rotation(c) ==
    /\ Abs(c.momentum_x) < MomentumResume
    /\ Abs(c.momentum_y) < MomentumResume
    /\ c.transition.current > TransitionResume

\* variant of resume_auto_rotation: the transition is sent past 1
RotationController_resume_auto_rotation_past(c) ==
    [c EXCEPT !.auto_rotation = TRUE,
              !.transition = SmoothValue_set_target(@, 2 * Resolution)]

RotationController_resume_auto_rotation(c) ==
    [c EXCEPT !.auto_rotation = TRUE,
              !.transition = SmoothValue_set_target(@, Resolution)]

\* variant of update_mouse_velocity: without a positive delta_time the
\* targets are reset
RotationController_update_mouse_velocity_reset(c, dx, dy, ms) ==
    IF ms > 0
    THEN [c EXCEPT
            !.velocity_x =
                SmoothValue_set_target(@, RoundDiv(dx * 1300 * Resolution, ms)),
            !.velocity_y =
                SmoothValue_set_target(@, RoundDiv(dy * 1300 * Resolution, ms))]
    ELSE [c EXCEPT !.velocity_x = SmoothValue_set_target(@, 0),
                   !.velocity_y = SmoothValue_set_target(@, 0)]

\* update_mouse_velocity(dx, dy, delta_time), delta_time in milliseconds:
\* the targets are dx / delta_time * 1.3
RotationController_update_mouse_velocity(c, dx, dy, ms) ==
    IF ms > 0
    THEN [c EXCEPT
            !.velocity_x =
                SmoothValue_set_target(@, RoundDiv(dx * 1300 * Resolution, ms)),
            !.velocity_y =
                SmoothValue_set_target(@, RoundDiv(dy * 1300 * Resolution, ms))]
    ELSE c

\* the fields of the program, without the history
ControllerFields(c) ==
    <<c.rotation_x, c.rotation_y, c.momentum_x, c.momentum_y, c.velocity_x,
      c.velocity_y, c.auto_rotation, c.transition, c.dragging>>

\* the controller part of update_animation (of an iteration of run()):
\* update(delta_time), then the check for auto-rotation
ControllerTick(c) ==
    LET u == RotationController_update(c)
    IN IF ~u.auto_rotation /\ should_resume_auto_rotation(u)
       THEN RotationController_resume_auto_rotation(u)
       ELSE u

\* largest number of inputs of a run, of updates between two inputs that
\* come in quick succession, and the value at which idle stops counting
MaxInputs == 3
MaxGap == 1
MaxIdle == 70

\* the mouse movements explored, <<dx, dy, delta_time in ms>>: one pixel
\* within a frame, one pixel on each axis 10.4 s after the last frame, and
\* movements for which time.time() has not advanced or has gone back
MoveInputs ==
    {<<1, 0, 16>>, <<0, -1, 16>>, <<1, 1, 10400>>, <<1, 1, 0>>, <<1, 0, -16>>}

\* an input arrives within MaxGap updates of the last one, or after the
\* controller has come to rest
InputAllowed ==
    /\ impl = "window" \/ controller.phase = "events"
    /\ controller.inputs < MaxInputs
    /\ \/ controller.idle <= MaxGap
       \/ ControllerFields(ControllerTick(controller))
             = ControllerFields(controller)

notController == <<impl, transportVars, uiVars, audio, threadVars, closed,
                   histVars, geom, smooth>>

\* the history of an input handler that leaves the controller as c
AfterInput(name, c) ==
    /\ controller' = [c EXCEPT
                        !.last = name,
                        !.before = <<controller.momentum_x,
                                     controller.momentum_y>>,
                        !.idle = 0,
                        !.inputs = @ + 1,
                        !.zero_stop = /\ name = "mouseReleaseEvent"
                                      /\ controller.velocity_x.current = 0
                                      /\ controller.velocity_y.current = 0,
                        !.manual =
                            CASE name = "mousePressEvent" -> "press"
                              [] name = "mouseReleaseEvent" -> "none"
                              [] name = "keyPressEvent" ->
                                   IF controller.auto_rotation THEN "space"
                                   ELSE "none"
                              [] OTHER -> @,
                        !.pre = ControllerFields(controller)]
    /\ UNCHANGED notController

\* mousePressEvent with the left button (MOUSEBUTTONDOWN in run())
mousePressEvent ==
    /\ InputAllowed
    /\ AfterInput("mousePressEvent",
                  [RotationController_start_orbit(controller)
                      EXCEPT !.dragging = TRUE])

\* mouseReleaseEvent with the left button (MOUSEBUTTONUP in run())
mouseReleaseEvent ==
    /\ InputAllowed
    /\ controller.dragging
    /\ AfterInput("mouseReleaseEvent",
                  [RotationController_stop_orbit(controller)
                      EXCEPT !.dragging = FALSE])

\* mouseMoveEvent (MOUSEMOTION in run()) while the button is held
mouseMoveEvent ==
    /\ InputAllowed
    /\ controller.dragging
    /\ \E move \in MoveInputs :
          LET dx == move[1]
              dy == move[2]
              c == RotationController_update_mouse_velocity(
                       controller, dx, dy, move[3])
          IN AfterInput("mouseMoveEvent",
                 [c EXCEPT
                    !.rotation_y = SmoothValue_set_target(
                        @, @.current + (dx * Resolution) \div 2),
                    !.rotation_x = SmoothValue_set_target(
                        @, @.current + (dy * Resolution) \div 2),
                    !.move = move])

\* keyPressEvent with the space key
keyPressEvent ==
    /\ InputAllowed
    /\ AfterInput("keyPressEvent",
                  IF controller.auto_rotation
                  THEN RotationController_start_orbit(controller)
                  ELSE RotationController_resume_auto_rotation(controller))

\* the controller part of update_animation, called by animation_timer
Controller_update_animation ==
    /\ impl = "window"
    /\ controller' = [ControllerTick(controller) EXCEPT
                        !.last = "update",
                        !.before = <<controller.momentum_x,
                                     controller.momentum_y>>,
                        !.idle = Min(@ + 1, MaxIdle),
                        !.pre = ControllerFields(controller)]
    /\ UNCHANGED notController

\* run(): the top of an iteration, controller.update(delta_time); the
\* events of pygame.event.get() are handled next
AnimationThread_controller_update ==
    /\ impl = "threaded"
    /\ controller.phase = "top"
    /\ controller' = [RotationController_update(controller) EXCEPT
                        !.phase = "events",
                        !.last = "update",
                        !.before = <<controller.momentum_x,
                                     controller.momentum_y>>,
                        !.idle = Min(@ + 1, MaxIdle),
                        !.pre = ControllerFields(controller)]
    /\ UNCHANGED notController

\* run(): after the events, the check for auto-rotation, and the forced
\* resume in the first iteration that reads t >= 1.0 from the progress
\* window (full says whether this iteration reads it)
AnimationThread_check(c0, full) ==
    LET c == IF ~c0.auto_rotation /\ should_resume_auto_rotation(c0)
             THEN RotationController_resume_auto_rotation(c0)
             ELSE c0
        first == full /\ ~c.animation_completed
        d == IF first /\ ~c.auto_rotation
             THEN RotationController_resume_auto_rotation(c)
             ELSE c
    IN [d EXCEPT !.animation_completed = @ \/ first]

AnimationThread_resume_check ==
    /\ impl = "threaded"
    /\ controller.phase = "events"
    /\ \E full \in BOOLEAN :
          controller' = [AnimationThread_check(controller, full) EXCEPT
                              !.phase = "top",
                              !.last = "check",
                              !.before = <<controller.momentum_x,
                                           controller.momentum_y>>,
                              !.pre = ControllerFields(controller)]
    /\ UNCHANGED notController

NextController ==
    \/ mousePressEvent
    \/ mouseReleaseEvent
    \/ mouseMoveEvent
    \/ keyPressEvent
    \/ Controller_update_animation
    \/ AnimationThread_controller_update
    \/ AnimationThread_resume_check

SpecController == Init /\ [][NextController]_vars

\* the largest number of set_target calls on the SmoothValue
MaxTargets == 2
\* the value at which updates stops counting
MaxSettle == 130

\* the values a SmoothValue is constructed with, and the targets it is given
SmoothingInputs ==
    {(6 * Resolution) \div 10, (8 * Resolution) \div 10,
     (95 * Resolution) \div 100}
TargetInputs == {-Resolution, 0, 7, Resolution, 3 * Resolution}

notSmooth == <<impl, transportVars, uiVars, audio, threadVars, closed,
               histVars, geom, controller>>

\* set_target, within MaxGap updates of the last one or after the value
\* has stopped moving
Smooth_set_target ==
    /\ smooth.targets < MaxTargets
    /\ \/ smooth.updates <= MaxGap
       \/ SmoothValue_update(smooth.value) = smooth.value
    /\ \E value \in TargetInputs :
          smooth' = [smooth EXCEPT
                       !.value = SmoothValue_set_target(@, value),
                       !.last = "set_target",
                       !.before = <<smooth.value.current, smooth.value.target>>,
                       !.updates = 0,
                       !.targets = @ + 1]
    /\ UNCHANGED notSmooth

Smooth_update ==
    /\ smooth' = [smooth EXCEPT
                    !.value = SmoothValue_update(@),
                    !.last = "update",
                    !.before = <<smooth.value.current, smooth.value.target>>,
                    !.updates = Min(@ + 1, MaxSettle)]
    /\ UNCHANGED notSmooth

NextSmooth == Smooth_set_target \/ Smooth_update

InitSmooth ==
    /\ InitSession
    /\ geom = GeomInit(Subdivisions)
    /\ controller = ControllerInit
    /\ smooth \in {SmoothInit(initial, smoothing) :
                      initial \in {0, Resolution},
                      smoothing \in SmoothingInputs}

SpecSmooth == InitSmooth /\ [][NextSmooth]_vars

\* ------------------------------------------------------------------------
\* Properties of SmoothValue and RotationController

\* target - current of the SmoothValue, now and before the last call
Gap == smooth.value.target - smooth.value.current
GapBefore == smooth.before[2] - smooth.before[1]

\* update() no longer moves a value with this gap: the step
\* gap * (1.0 - smoothing) rounds to nothing
Stalled(gap) == 2 * Abs(gap) * (Resolution - smooth.value.smoothing) < Resolution

C29_ResumeAfterStop ==
    /\ controller.zero_stop =>
          controller.momentum_x = 0 /\ controller.momentum_y = 0
    /\ should_resume_auto_rotation(controller)
          <=> /\ 10 * Abs(controller.momentum_x) < 3 * Resolution
              /\ 10 * Abs(controller.momentum_y) < 3 * Resolution
              /\ 100 * controller.transition.current > 95 * Resolution
    /\ (controller.zero_stop /\ controller.idle = MaxIdle) =>
          should_resume_auto_rotation(controller)

\* the button was released without any movement after a drag long enough
\* for transition to fall below 0.95, and transition has climbed back
C29_Witness ==
    /\ controller.zero_stop
    /\ controller.idle = MaxIdle
    /\ should_resume_auto_rotation(controller)
    /\ controller.transition.current < Resolution

\* C30: momentum comes to rest: an update never increases |momentum| on
\* either axis, leaves a momentum of 0 at 0, and does not leave a momentum
\* pair other than <<0, 0>> as it was (the new pair depends on the old pair
\* only, so a pair that an update leaves as it is never becomes 0).
C30_EventualRest ==
    controller.last = "update" =>
        /\ Abs(controller.momentum_x) <= Abs(controller.before[1])
        /\ Abs(controller.momentum_y) <= Abs(controller.before[2])
        /\ controller.before = <<0, 0>> =>
              controller.momentum_x = 0 /\ controller.momentum_y = 0
        /\ controller.before # <<0, 0>> =>
              <<controller.momentum_x, controller.momentum_y>>
                  # controller.before

\* C31: in the window program auto_rotation is false from a left-button
\* press until the button is released or the space key is pressed, after
\* every animation tick in between.
C31_DragIsManual ==
    (impl = "window" /\ controller.manual = "press") =>
        ~controller.auto_rotation

\* the button was pressed again while transition was fading back to 1, and
\* ticks have run since
C31_Witness ==
    /\ impl = "window"
    /\ controller.manual = "press"
    /\ controller.last = "update"
    /\ controller.inputs = 3
    /\ controller.idle >= 1
    /\ ~controller.auto_rotation

\* C32: in the threaded program, at the end of every iteration that follows
\* a press or a space key by which auto-rotation was switched off, and
\* before a release or a further space key, auto_rotation is false and the
\* transition target is 0.
C32_PressInEffect ==
    (impl = "threaded" /\ controller.manual # "none"
     /\ controller.phase = "top") =>
        /\ ~controller.auto_rotation
        /\ controller.transition.target = 0

\* the fields before the last handler, by name
PreRotationX == controller.pre[1]
PreRotationY == controller.pre[2]
PreMomentum == <<controller.pre[3], controller.pre[4]>>
PreVelocityX == controller.pre[5]
PreVelocityY == controller.pre[6]
PreAutoRotation == controller.pre[7]
PreTransition == controller.pre[8]

\* C33: stop_orbit sets each momentum to 0.2 times the smoothed velocity of
\* the drag on the axis that drives it (to the nearest step), the
\* transition target to 1 and auto_rotation to true, whatever the velocity;
\* rotation_x, rotation_y, the velocities and transition.current keep
\* their values.
C33_StopOrbit ==
    controller.last = "mouseReleaseEvent" =>
        /\ 2 * Abs(10 * controller.momentum_x - 2 * PreVelocityY.current) <= 10
        /\ 2 * Abs(10 * controller.momentum_y - 2 * PreVelocityX.current) <= 10
        /\ controller.transition.target = Resolution
        /\ controller.auto_rotation
        /\ controller.rotation_x = PreRotationX
        /\ controller.rotation_y = PreRotationY
        /\ controller.velocity_x = PreVelocityX
        /\ controller.velocity_y = PreVelocityY
        /\ controller.transition.current = PreTransition.current

\* the button was released during a movement, with transition below 1
C33_Witness ==
    /\ controller.last = "mouseReleaseEvent"
    /\ controller.momentum_y # 0
    /\ ~PreAutoRotation
    /\ PreTransition.target = 0
    /\ controller.transition.current < Resolution

\* C34: a mouse movement with delta_time <= 0 changes neither velocity
\* target nor any other field of the controller but the rotation targets
\* that the handler itself sets; with delta_time > 0 the velocity targets
\* become dx / delta_time * 1.3 and dy / delta_time * 1.3 (to the nearest
\* step) and nothing else changes.
C34_MouseVelocity ==
    controller.last = "mouseMoveEvent" =>
        LET dx == controller.move[1]
            dy == controller.move[2]
            ms == controller.move[3]
        IN /\ ms <= 0 => /\ controller.velocity_x = PreVelocityX
                         /\ controller.velocity_y = PreVelocityY
           /\ ms > 0 =>
                /\ 2 * Abs(controller.velocity_x.target * ms
                           - dx * 1300 * Resolution) <= ms
                /\ 2 * Abs(controller.velocity_y.target * ms
                           - dy * 1300 * Resolution) <= ms
                /\ controller.velocity_x.current = PreVelocityX.current
                /\ controller.velocity_y.current = PreVelocityY.current
           /\ <<controller.momentum_x, controller.momentum_y>> = PreMomentum
           /\ controller.auto_rotation = PreAutoRotation
           /\ controller.transition = PreTransition
           /\ controller.rotation_x.current = PreRotationX.current
           /\ controller.rotation_y.current = PreRotationY.current

\* a movement with delta_time = 0 arrived while the velocity targets were
\* not 0
C34_Witness ==
    /\ controller.last = "mouseMoveEvent"
    /\ controller.move[3] = 0
    /\ controller.velocity_x.target # 0

\* ------------------------------------------------------------------------
\* The rotation of a frame
\*
\* Angles are kept in steps of 1/Resolution degree.  A frame can be drawn in
\* every state of the window program (paintGL) and at the end of every
\* iteration of run() in the threaded one; e is the elapsed time it reads.

\* rotation_angle % 360 with rotation_speed = 50 * (1.0 - 0.5 * t) and
\* rotation_angle = rotation_speed * elapsed; a tick of elapsed is 0.016 s
rotation_angle(e) ==
    RoundDiv(50 * 16 * e * (2 * duration - get_normalized_elapsed(e)),
             2 * duration * SliderMax)
    % (360 * Resolution)

\* the angle of the glRotatef(_, 1, 1, 1) call of the main scene, 0 if the
\* call is left out
paintGL_spin(auto_rotation, transition_current, e) ==
    IF auto_rotation THEN rotation_angle(e) ELSE 0

run_spin(auto_rotation, transition_current, e) ==
    IF auto_rotation \/ transition_current > 0
    THEN RoundDiv(rotation_angle(e) * transition_current, Resolution)
    ELSE 0

SceneSpin(auto_rotation, transition_current, e) ==
    IF impl = "window"
    THEN paintGL_spin(auto_rotation, transition_current, e)
    ELSE run_spin(auto_rotation, transition_current, e)

\* the same for the axis indicator
IndicatorSpin(auto_rotation, transition_current, e) ==
    IF auto_rotation THEN rotation_angle(e) ELSE 0

\* run() frame by frame: one action is a whole iteration of the loop with at
\* most one event in pygame.event.get(), controller.update(delta_time)
\* first, the event next, the check for auto-rotation last; the frame is
\* drawn from the controller the iteration leaves.  MaxEvents events arrive
\* in a session, each within MaxGap iterations of the last one or with the
\* controller at rest.
MaxEvents == 4

RenderEvents ==
    {"none", "MOUSEBUTTONDOWN", "MOUSEBUTTONUP", "MOUSEMOTION", "K_SPACE"}

\* the branch of the event loop of run() for one event
AnimationThread_event(c, event, move) ==
    CASE event = "MOUSEBUTTONDOWN" ->
           [RotationController_start_orbit(c) EXCEPT !.dragging = TRUE]
      [] event = "MOUSEBUTTONUP" ->
           [RotationController_stop_orbit(c) EXCEPT !.dragging = FALSE]
      [] event = "MOUSEMOTION" ->
           IF c.dragging
           THEN [RotationController_update_mouse_velocity(
                     c, move[1], move[2], move[3])
                 EXCEPT
                    !.rotation_y = SmoothValue_set_target(
                        @, @.current + (move[1] * Resolution) \div 2),
                    !.rotation_x = SmoothValue_set_target(
                        @, @.current + (move[2] * Resolution) \div 2)]
           ELSE c
      [] event = "K_SPACE" ->
           IF c.auto_rotation
           THEN RotationController_start_orbit(c)
           ELSE RotationController_resume_auto_rotation(c)
      [] OTHER -> c

AnimationThread_run_iteration ==
    /\ impl = "threaded"
    /\ controller.phase = "top"
    /\ \E event \in RenderEvents, move \in MoveInputs, full \in BOOLEAN :
          /\ event # "MOUSEMOTION" => move = <<1, 0, 16>>
          /\ event \in {"MOUSEBUTTONUP", "MOUSEMOTION"} => controller.dragging
          /\ event # "none" =>
                /\ controller.inputs < MaxEvents
                /\ \/ controller.idle <= MaxGap
                   \/ ControllerFields(ControllerTick(controller))
                         = ControllerFields(controller)
          /\ controller' =
                [AnimationThread_check(
                     AnimationThread_event(
                         RotationController_update(controller), event, move),
                     full)
                 EXCEPT
                    !.last = event,
                    !.before = <<controller.momentum_x,
                                 controller.momentum_y>>,
                    !.idle = IF event = "none" THEN Min(@ + 1, MaxIdle)
                             ELSE 0,
                    !.inputs = IF event = "none" THEN @ ELSE @ + 1]
    /\ UNCHANGED notController

NextRender == AnimationThread_run_iteration

InitRender == Init /\ impl = "threaded"

SpecRender == InitRender /\ [][NextRender]_vars

\* a frame is drawn in this state
FrameDrawn == impl = "window" \/ controller.phase = "top"

\* C35: the auto-spin angle of a frame is the base angle times
\* transition.current, and a press, a release or a space key leaves the
\* angle of the next frame where it was.
C35_SpinFollowsTransition ==
    \A e \in 0..duration :
       /\ FrameDrawn =>
             SceneSpin(controller.auto_rotation,
                       controller.transition.current, e)
                = RoundDiv(rotation_angle(e) * controller.transition.current,
                           Resolution)
       /\ controller.last \in {"mousePressEvent", "mouseReleaseEvent",
                               "keyPressEvent"} =>
             SceneSpin(controller.auto_rotation,
                       controller.transition.current, e)
                = SceneSpin(PreAutoRotation, PreTransition.current, e)

\* C36: in every frame the axis indicator gets the same rotation as the
\* main scene: both are given rotation_x.get() and rotation_y.get(), and
\* the auto-spin angle is the same in both.
C36_IndicatorFollowsScene ==
    FrameDrawn =>
        \A e \in 0..duration :
            IndicatorSpin(controller.auto_rotation,
                          controller.transition.current, e)
               = SceneSpin(controller.auto_rotation,
                           controller.transition.current, e)

\* ------------------------------------------------------------------------
\* The labels of the transport buttons

\* a handler of a button click has just run
AfterClick ==
    op \in {"toggle_play_pause", "toggle_rewind", "toggle_speed"}

\* a tick has just paused the transport by itself
AfterAutomaticPause ==
    /\ op \in {"update_animation", "update_ui"}
    /\ ~pre.paused
    /\ paused

\* C37: after every button click and every automatic pause the play/pause
\* button shows the pause label exactly when the transport is
\* PlayingForward, and the rewind button shows the stop label exactly when
\* it is Rewinding.
C37_LabelsFollowTransport ==
    (AfterClick \/ AfterAutomaticPause) =>
        /\ play_pause_btn = "Pause" <=> PlayingForward
        /\ rewind_btn = "Stop" <=> Rewinding

\* ------------------------------------------------------------------------
\* The range of the transition

\* C38: in every state of the controller transition.current lies between 0
\* and 1 and transition.target is 0 or 1.
C38_TransitionRange ==
    /\ 0 <= controller.transition.current
    /\ controller.transition.current <= Resolution
    /\ controller.transition.target \in {0, Resolution}

\* an update has moved the transition strictly between the two ends, and
\* a press, a release or a key has set its target before
C38_Witness ==
    /\ controller.last = "update"
    /\ controller.inputs > 0
    /\ 0 < controller.transition.current
    /\ controller.transition.current < Resolution
    /\ controller.transition.current # PreTransition.current

\* ------------------------------------------------------------------------
\* The thread's copy of the transport

\* C39: threaded implementation: whenever no handler of the ProgressWindow
\* and no slot of the thread is running, the thread's paused, rewind_mode
\* and speed are those of the window, whether the clicks and automatic
\* pauses came before or after the thread connected the signal and
\* initialised its fields.
C39_ThreadCopyFollows ==
    (impl = "threaded" /\ th_pending = <<>>) =>
        ThreadCopy = [paused |-> paused, rewind_mode |-> rewind_mode,
                      speed |-> speed]

\* ------------------------------------------------------------------------
\* The ticks run the transport to an end

\* The sessions without an audio track: no file is chosen at start-up and
\* load_audio_file, which leaves the transport as it is, is not used.  Every
\* transport handler is there, and the player stays empty.
InitTicks == Init /\ ~audio_file

NextTicks ==
    \/ MainWindow_update_animation
    \/ MainWindow_update_ui
    \/ MainWindow_slider_pressed
    \/ MainWindow_slider_changed
    \/ MainWindow_slider_released
    \/ MainWindow_toggle_play_pause
    \/ MainWindow_toggle_rewind
    \/ MainWindow_toggle_speed
    \/ ThreadedNext

\* animation_timer (window) and update_timer (threaded) are repeating
\* QTimers of the event loop: a tick that stays due is delivered; a slot
\* that has started runs to its end
TimerTick == MainWindow_update_animation \/ ProgressWindow_update_ui

SpecTicks ==
    /\ InitTicks
    /\ [][NextTicks]_vars
    /\ WF_vars(TimerTick)
    /\ WF_vars(AnimationThread_handle_progress_signals_rest)

\* the handlers of the user's input
InputOps ==
    {"slider_pressed", "slider_changed", "slider_released",
     "toggle_play_pause", "toggle_rewind", "toggle_speed", "load_audio_file"}

\* the last step was a tick or a step of the render thread
NoInput == op \notin InputOps

\* a tick has paused a forward run at duration or a rewind at 0
RunEnded ==
    /\ Ticked
    /\ Paused
    /\ \/ PrePlayingForward /\ elapsed = duration
       \/ PreRewinding /\ elapsed = 0

\* C40: with the ticks firing, PlayingForward leads to Paused at
\* elapsed = duration and Rewinding to Paused at elapsed = 0 unless an input
\* is handled first; and from Paused every step that is not an input leaves
\* the transport Paused with elapsed unchanged.
C40_TicksEndInPause ==
    /\ (~paused /\ NoInput) ~> (RunEnded \/ ~NoInput)
    /\ [][(Paused /\ op' \notin InputOps)
             => (Paused' /\ elapsed' = elapsed)]_vars

\* the ticks have run a rewind down to its automatic pause
C40_Witness ==
    /\ Ticked /\ PreRewinding
    /\ pre.elapsed > 0
    /\ Paused /\ elapsed = 0

============================================================================
